---- MODULE Spec2Model ----
(***************************************************************************)
(* Model of the QM-result pipeline of the parameterize package:            *)
(*   - retrieve of the in-process backends FakeQM, FakeQM2 (qm/fake.py)    *)
(*     and CustomQM (qm/custom.py) with their per-frame disk cache;        *)
(*   - filterQMResults, getDipole, makeAtomNamesUnique, scanDihedrals and  *)
(*     the job directories it makes (parameterization/util.py);            *)
(*   - OMMMinimizer.minimize (qm/custom.py).                               *)
(* Each component has its own variables and its own specification; the     *)
(* variables of the others stay as they start.                             *)
(*                                                                         *)
(* Abstractions.  A geometry (one frame's coordinate array) is a natural   *)
(* number; the external numerical routines (force-field evaluation, nlopt, *)
(* OpenMM, rdkit) are deterministic functions of the geometries they are   *)
(* given, written so that their result names the geometry they read.       *)
(* Frames are numbered from 0 as in the code; the list a call returns is a *)
(* sequence, so frame k is its element k + 1.                              *)
(***************************************************************************)
EXTENDS Integers, Sequences, FiniteSets, TLC

\* ------------------------------------------------------------------ bounds
\* Largest number of frames of the configured molecule.
MaxFrames == 2
\* Largest number of retrieve calls in one behaviour.
MaxCalls == 2

\* Largest number of batches (dihedrals) given to filterQMResults.
MaxBatches == 2
\* Largest number of records in all batches together.
MaxRecords == 3

\* --------------------------------------------------------------- constants
\* "if relative_energy < 20:  # kcal/mol"
EnergyThreshold == 20
\* Python's None: "no value" of an optional attribute.
None == <<>>
Backends == {"FakeQM", "FakeQM2", "CustomQM"}
\* The one dihedral of the model molecule that a caller may restrain.
TheDihedral == <<0, 1, 2, 3>>
\* The ESP evaluation points a caller may supply.
ThePoints == <<<<1, 1, 1>>>>
\* Wall-clock durations CustomQM may measure for one frame.
Timings == {1, 2}

VARIABLES
    backend,               \* class of the backend object
    numFrames,             \* self.molecule.numFrames
    version,               \* which coordinate set self.molecule holds
    mol_frame,             \* self.molecule.frame
    optimize,              \* self.optimize
    restrained_dihedrals,  \* self.restrained_dihedrals
    esp_points,            \* self.esp_points
    minimizer,             \* CustomQM: self.minimizer
    dirs,                  \* frame directories that exist under self.directory
    disk,                  \* directory name -> content of its data.pkl
    results,               \* list returned by the last retrieve call
    outcome,               \* "idle", "returned" or "raised" (last call)
    ncalls,                \* retrieve calls made so far
    attempted,             \* history: frames whose computation the last call started
    computed,              \* history: frames the last call computed and stored
    loaded,                \* history: frames the last call loaded from data.pkl
    failedFrame,           \* history: frame whose computation raised, or -1
    computeCount,          \* history: frame -> completed computations
    firstReturned,         \* history: frame -> first record returned for it
    minimizeCalls,         \* history: minimizer.minimize calls of the last retrieve
    all_results,           \* filterQMResults: argument all_results
    mol,                   \* filterQMResults: argument mol
    valid_out,             \* filterQMResults: the list of lists it returned
    log,                   \* filterQMResults: warnings it logged, in order
    fstatus,               \* "input", "returned" or "raised"
    refiltered             \* what a call on valid_out returned, None before

qmVars == <<backend, numFrames, version, mol_frame, optimize,
            restrained_dihedrals, esp_points, minimizer, dirs, disk, results,
            outcome, ncalls, attempted, computed, loaded, failedFrame,
            computeCount, firstReturned, minimizeCalls>>

filterVars == <<all_results, mol, valid_out, log, fstatus, refiltered>>

\* getDipole(mol) of parameterization/util.py
VARIABLES
    dipole_mol,            \* the molecule given: masses, charge, coords
    dipole_out,            \* the vector returned, None before the call
    dipole_log,            \* warnings logged
    dipole_status,         \* "idle" | "returned" | "raised"
    com_calls              \* history: calls of centreOfMass

dipoleVars == <<dipole_mol, dipole_out, dipole_log, dipole_status, com_calls>>

\* makeAtomNamesUnique(mol) of parameterization/util.py
VARIABLES
    given_names,           \* history: mol.name when the call is made
    mol_names,             \* mol.name of the molecule the caller holds
    new_names,             \* name of the molecule returned, None before
    names_status,          \* "idle" | "returned"
    renamed,               \* history: the indices renamed, in order
    twice_names            \* name of the molecule a call on new_mol returned

namesVars ==
    <<given_names, mol_names, new_names, names_status, renamed, twice_names>>

\* OMMMinimizer of qm/custom.py
VARIABLES
    system,                \* self.system: the forces it holds, by index
    minimized_coords,      \* what the last minimize returned, None if none
    omm_status,            \* "idle" | "returned" | "raised"
    omm_warnings,          \* warnings logged by the last minimize
    omm_attempts,          \* history: attempts made by the last minimize
    omm_calls,             \* history: the minimize calls made, in order
    omm_trace              \* history: the attempts of the last minimize

ommVars == <<system, minimized_coords, omm_status, omm_warnings,
             omm_attempts, omm_calls, omm_trace>>

\* scanDihedrals(mol, ref, dihedrals, outdir, scan_type, mm_minimizer) of
\* parameterization/util.py
VARIABLES
    scan_names,            \* mol.name
    scan_dihedrals,        \* dihedrals: 4 atom indices each
    scan_type,             \* "qm" | "mm" | "None"
    mm_given,              \* whether mm_minimizer is not None
    ref,                   \* the backend object: the attributes it holds
    rotamers,              \* history: the molecules as generated
    calls,                 \* history: calls made on ref and mm_minimizer
    scan_results,          \* the batches returned, None before the return
    scan_status,           \* "idle" | "returned" | "raised"
    scan_disk,             \* the data.pkl files under outdir
    scans                  \* scanDihedrals calls made so far

scanVars == <<scan_names, scan_dihedrals, scan_type, mm_given, ref, rotamers,
              calls, scan_results, scan_status, scan_disk, scans>>

\* Two scan jobs and the directories scanDihedrals gives them
VARIABLES
    job_a, job_b,          \* scan_type, dihedral and method of each job
    job_names,             \* mol.name of the molecule scanned by both
    dir_a, dir_b           \* their directories, None before they are made

jobVars == <<job_a, job_b, job_names, dir_a, dir_b>>

\* fixPhosphateTypes(molecule) of parameterization/fixes.py
VARIABLES
    fix_given,             \* history: the molecule when the call is made
    fix_mol,               \* the molecule the caller holds
    fix_out,               \* the molecule returned, None before
    fix_status             \* "idle" | "returned" | "raised"

fixVars == <<fix_given, fix_mol, fix_out, fix_status>>

\* The variables of the other components, left alone by the actions of one.
notQmVars == <<filterVars, dipoleVars, namesVars, ommVars, scanVars, jobVars,
    fixVars>>
notFilterVars == <<qmVars, dipoleVars, namesVars, ommVars, scanVars, jobVars,
    fixVars>>
notDipoleVars == <<qmVars, filterVars, namesVars, ommVars, scanVars, jobVars,
    fixVars>>
notNamesVars == <<qmVars, filterVars, dipoleVars, ommVars, scanVars, jobVars,
    fixVars>>
notOmmVars == <<qmVars, filterVars, dipoleVars, namesVars, scanVars, jobVars,
    fixVars>>
notScanVars == <<qmVars, filterVars, dipoleVars, namesVars, ommVars, jobVars,
    fixVars>>
notJobVars == <<qmVars, filterVars, dipoleVars, namesVars, ommVars, scanVars,
    fixVars>>
notFixVars == <<qmVars, filterVars, dipoleVars, namesVars, ommVars, scanVars,
    jobVars>>

\* ------------------------------------------------------------- geometries
\* Coordinates of frame iframe in coordinate set v of the molecule: all
\* frames of all coordinate sets are different geometries.
FrameCoords(v, iframe) == 10 * iframe + v + 1

\* Result of a converged minimization started at c: restrained to the
\* dihedral angle of c, or free.
MinimizedRestrained(c) == c + 100
MinimizedFree(c) == c + 200
\* Result of a constrained search whose equality constraints refer to
\* another geometry than its start c.
MinimizedStale(c) == c + 300

\* ff.calculateEnergies(coords)["total"], state.getPotentialEnergy(),
\* calculator.calculate(coords, ...): the energy of geometry c.
Energy(c) == 1000 + c

\* getDipole(self.molecule): evaluated on the coordinates of the frame
\* self.molecule.frame of the configured molecule.
GetDipole(v, frame) == <<"dipole", FrameCoords(v, frame)>>

\* Electrostatic potential at points from the charges placed at geometry c.
EspValues(points, c) == <<"esp", points, c>>

\* ------------------------------------------------------------ QMResult
\* QMResult(): a fresh record.
QMResult ==
    [errored |-> FALSE, coords |-> None, energy |-> None, dipole |-> None,
     esp_points |-> None, esp_values |-> None, charge |-> None,
     calculator_time |-> None]

\* pickle.dump(result, fd): the record's attributes in a fixed order.
PickleDump(r) ==
    <<r.errored, r.coords, r.energy, r.dipole, r.esp_points, r.esp_values,
      r.charge, r.calculator_time>>

\* Mutant of PickleLoad: the dipole attribute is not restored.
PickleLoadNoDipole(p) ==
    [errored |-> p[1], coords |-> p[2], energy |-> p[3], dipole |-> None,
     esp_points |-> p[5], esp_values |-> p[6], charge |-> p[7],
     calculator_time |-> p[8]]

\* pickle.load(fd): the record rebuilt from the stored attributes.
PickleLoad(p) ==
    [errored |-> p[1], coords |-> p[2], energy |-> p[3], dipole |-> p[4],
     esp_points |-> p[5], esp_values |-> p[6], charge |-> p[7],
     calculator_time |-> p[8]]

\* ------------------------------------------------------------ directories
RECURSIVE Digits(_)
\* Decimal digits of n >= 0, most significant first.
Digits(n) == IF n < 10 THEN <<n>> ELSE Append(Digits(n \div 10), n % 10)

RECURSIVE ZeroPad(_, _)
ZeroPad(ds, width) == IF Len(ds) >= width THEN ds ELSE ZeroPad(<<0>> \o ds, width)

\* Mutant of FrameDirectory: every frame is given the directory of frame 0.
FrameDirectoryFlat(iframe) == ZeroPad(Digits(0), 5)

\* os.path.join(self.directory, "%05d" % iframe), relative to self.directory.
FrameDirectory(iframe) == ZeroPad(Digits(iframe), 5)

\* Mutant of Completed: the sentinel is looked up under another file name.
CompletedWrongName(files, directory) == FALSE

\* _completed(directory): data.pkl exists in the directory.
Completed(files, directory) == directory \in DOMAIN files

\* open(pickleFile, "wb"); pickle.dump(result, fd)
WritePickle(files, directory, r) ==
    [d \in (DOMAIN files) \cup {directory} |->
        IF d = directory THEN PickleDump(r) ELSE files[d]]

\* -------------------------------------------------------------- retrieve
\* CustomEnergyBasedMinimizer(mol, calculator): one nlopt optimizer of
\* dimension mol.coords.size, i.e. 3 * atoms * frames; dim counts it in
\* units of one frame.  constraints lists the reference geometries of the
\* equality constraints added so far.
NoMinimizer == [built |-> FALSE, dim |-> 0, constraints |-> <<>>]
CustomEnergyBasedMinimizer(nframes) ==
    [built |-> TRUE, dim |-> nframes, constraints |-> <<>>]

\* CustomEnergyBasedMinimizer.minimize up to the call of opt.optimize: every
\* restrained dihedral adds one equality constraint, referenced to the input
\* geometry c, to the optimizer the instance keeps.
AddConstraints(m, c, restrained) ==
    IF restrained # None
    THEN [m EXCEPT !.constraints = Append(@, c)]
    ELSE m

\* opt.optimize(coords.ravel()) of the kept optimizer, started at c: the
\* constraints in force are all those ever added.
OptimizeKept(m, c) ==
    IF m.constraints = <<>> THEN MinimizedFree(c)
    ELSE IF \A i \in 1..Len(m.constraints) : m.constraints[i] = c
         THEN MinimizedRestrained(c)
         ELSE MinimizedStale(c)

\* FakeQM (a fresh nlopt optimizer per frame) and FakeQM2 (restraint phase
\* reset per frame): the minimization of one frame.
OptimizeFresh(c, restrained) ==
    IF restrained # None THEN MinimizedRestrained(c) ELSE MinimizedFree(c)

\* The configuration retrieve reads from self.
Config ==
    [backend |-> backend, numFrames |-> numFrames, version |-> version,
     optimize |-> optimize, restrained_dihedrals |-> restrained_dihedrals,
     esp_points |-> esp_points]

\* State of one retrieve call before its loop.
StartCall(files, made, m, frame) ==
    [disk |-> files, dirs |-> made, minimizer |-> m, mol_frame |-> frame,
     results |-> <<>>, raised |-> FALSE, attempted |-> {}, computed |-> {},
     loaded |-> {}, failedFrame |-> -1, minimizeCalls |-> <<>>]

\* The cache-hit branch: the stored record is loaded and appended.
LoadFrame(st, iframe) ==
    [st EXCEPT !.results = Append(@, PickleLoad(st.disk[FrameDirectory(iframe)])),
               !.loaded = @ \cup {iframe}]

\* Mutant of RaiseAt: data.pkl is opened for writing before the frame is
\* computed, so the exception leaves a file with a fresh record behind.
RaiseAtAfterOpen(st, iframe) ==
    [st EXCEPT !.raised = TRUE, !.failedFrame = iframe,
               !.disk = WritePickle(@, FrameDirectory(iframe), QMResult)]

\* An exception leaves the loop: nothing is appended, nothing is written.
RaiseAt(st, iframe) ==
    [st EXCEPT !.raised = TRUE, !.failedFrame = iframe]

\* A computed record is written to data.pkl and appended.
StoreFrame(st, iframe, r) ==
    [st EXCEPT !.disk = WritePickle(@, FrameDirectory(iframe), r),
               !.results = Append(@, r),
               !.computed = @ \cup {iframe}]

\* Mutant of EspAssertion: the single-frame assertion is left out.
EspAssertionDropped(cfg) == TRUE

\* The ESP block of FakeQM and FakeQM2; holds when its assertion does.
EspAssertion(cfg) == cfg.esp_points = None \/ cfg.numFrames = 1

WithEsp(r, cfg) ==
    IF cfg.esp_points # None
    THEN [r EXCEPT !.esp_points = cfg.esp_points,
                   !.esp_values = EspValues(cfg.esp_points, r.coords)]
    ELSE r

\* The record FakeQM computes for frame iframe when nothing raises.
FakeQMRecord(cfg, iframe) ==
    LET c0 == FrameCoords(cfg.version, iframe)
        c1 == IF cfg.optimize
              THEN OptimizeFresh(c0, cfg.restrained_dihedrals) ELSE c0
    IN  WithEsp([QMResult EXCEPT !.errored = FALSE, !.coords = c1,
                                 !.energy = Energy(c1),
                                 !.dipole = GetDipole(cfg.version, iframe)],
                cfg)

\* The record FakeQM2 computes for frame iframe when nothing raises.
FakeQM2Record(cfg, iframe) ==
    LET c0 == FrameCoords(cfg.version, iframe)
        c1 == IF cfg.optimize
              THEN OptimizeFresh(c0, cfg.restrained_dihedrals) ELSE c0
    IN  WithEsp([QMResult EXCEPT !.charge = <<0>>, !.errored = FALSE,
                                 !.energy = Energy(c1), !.coords = c1,
                                 !.dipole = GetDipole(cfg.version, iframe)],
                cfg)

\* The else-branch of FakeQM.retrieve and the loop body of FakeQM2.retrieve
\* after the cache test.  fails is the frame at which a called routine or
\* the self-consistency assertion raises, or -1.
ComputeFake(st, cfg, iframe, fails) ==
    LET s1 == [st EXCEPT !.attempted = @ \cup {iframe}]
        r  == IF cfg.backend = "FakeQM"
              THEN FakeQMRecord(cfg, iframe) ELSE FakeQM2Record(cfg, iframe)
    IN  IF fails = iframe \/ ~EspAssertion(cfg)
        THEN RaiseAt(s1, iframe)
        ELSE StoreFrame(s1, iframe, r)

\* The else-branch of CustomQM.retrieve.  t is the measured duration.
ComputeCustom(st, cfg, iframe, fails, t) ==
    LET s1 == [st EXCEPT !.attempted = @ \cup {iframe}]
        c0 == FrameCoords(cfg.version, iframe)
        m0 == IF ~st.minimizer.built
              THEN CustomEnergyBasedMinimizer(cfg.numFrames) ELSE st.minimizer
        m1 == AddConstraints(m0, c0, cfg.restrained_dihedrals)
        s2 == IF cfg.optimize
              THEN [s1 EXCEPT !.minimizer = m1,
                              !.minimizeCalls =
                                  Append(@, [coords |-> c0,
                                             restrained_dihedrals |->
                                                 cfg.restrained_dihedrals,
                                             constraints |-> m1.constraints])]
              ELSE s1
        \* nlopt refuses a start vector whose length is not its dimension
        mismatch == cfg.optimize /\ m1.dim # 1
        c1 == IF cfg.optimize THEN OptimizeKept(m1, c0) ELSE c0
        r  == [QMResult EXCEPT !.errored = FALSE, !.coords = c1,
                               !.energy = Energy(c1), !.dipole = <<0, 0, 0>>,
                               !.calculator_time = <<t>>]
    IN  IF mismatch \/ fails = iframe
        THEN RaiseAt(s2, iframe)
        ELSE StoreFrame(s2, iframe, r)

\* One iteration of "for iframe in range(self.molecule.numFrames)".
FrameStep(st, cfg, iframe, fails, t) ==
    LET s1 == [st EXCEPT !.mol_frame = iframe,
                         !.dirs = @ \cup {FrameDirectory(iframe)}]
    IN  IF Completed(s1.disk, FrameDirectory(iframe))
        THEN LoadFrame(s1, iframe)
        ELSE IF cfg.backend = "CustomQM"
             THEN ComputeCustom(s1, cfg, iframe, fails, t)
             ELSE ComputeFake(s1, cfg, iframe, fails)

RECURSIVE RetrieveLoop(_, _, _, _, _)
RetrieveLoop(st, cfg, iframe, fails, t) ==
    IF iframe >= cfg.numFrames \/ st.raised
    THEN st
    ELSE RetrieveLoop(FrameStep(st, cfg, iframe, fails, t), cfg, iframe + 1,
                      fails, t)

\* retrieve(): the statements before the loop (FFEvaluate in FakeQM, the
\* prmtop, system and simulation in FakeQM2, none in CustomQM) raise when
\* preamble_fails; otherwise the loop runs over all frames.
RunRetrieve(st, cfg, preamble_fails, fails, t) ==
    IF preamble_fails /\ cfg.backend # "CustomQM"
    THEN [st EXCEPT !.raised = TRUE]
    ELSE RetrieveLoop(st, cfg, 0, fails, t)

\* ----------------------------------------------------- backend: actions
Frames == 0..(numFrames - 1)

\* self.minimizer when the job starts: none yet, or, for CustomQM, the one
\* an earlier job of the same object built for a one-frame molecule (as
\* minimize of parameterization/util.py runs before scanDihedrals), not
\* used with restraints yet.
InitialMinimizers ==
    IF backend = "CustomQM"
    THEN {NoMinimizer, CustomEnergyBasedMinimizer(1)}
    ELSE {NoMinimizer}

\* A backend object, configured with a molecule and an empty job directory.
InitQM ==
    /\ backend \in Backends
    /\ numFrames \in 1..MaxFrames
    /\ version = 0
    /\ mol_frame = 0
    /\ optimize = FALSE
    /\ restrained_dihedrals = None
    /\ esp_points = None
    /\ minimizer \in InitialMinimizers
    /\ dirs = {}
    /\ disk = <<>>
    /\ results = <<>>
    /\ outcome = "idle"
    /\ ncalls = 0
    /\ attempted = {}
    /\ computed = {}
    /\ loaded = {}
    /\ failedFrame = -1
    /\ computeCount = [k \in Frames |-> 0]
    /\ firstReturned = [k \in Frames |-> <<>>]
    /\ minimizeCalls = <<>>

\* qm.optimize = b
SetOptimize(b) ==
    /\ b # optimize
    /\ optimize' = b
    /\ UNCHANGED <<backend, numFrames, version, mol_frame,
                   restrained_dihedrals, esp_points, minimizer, dirs, disk,
                   results, outcome, ncalls, attempted, computed, loaded,
                   failedFrame, computeCount, firstReturned, minimizeCalls, notQmVars>>

\* qm.restrained_dihedrals = r
SetRestrainedDihedrals(r) ==
    /\ r # restrained_dihedrals
    /\ restrained_dihedrals' = r
    /\ UNCHANGED <<backend, numFrames, version, mol_frame, optimize,
                   esp_points, minimizer, dirs, disk, results, outcome,
                   ncalls, attempted, computed, loaded, failedFrame,
                   computeCount, firstReturned, minimizeCalls, notQmVars>>

\* qm.esp_points = e
SetEspPoints(e) ==
    /\ e # esp_points
    /\ esp_points' = e
    /\ UNCHANGED <<backend, numFrames, version, mol_frame, optimize,
                   restrained_dihedrals, minimizer, dirs, disk, results,
                   outcome, ncalls, attempted, computed, loaded, failedFrame,
                   computeCount, firstReturned, minimizeCalls, notQmVars>>

\* The caller changes the coordinates of the configured molecule.
SetCoords(v) ==
    /\ v # version
    /\ version' = v
    /\ UNCHANGED <<backend, numFrames, mol_frame, optimize,
                   restrained_dihedrals, esp_points, minimizer, dirs, disk,
                   results, outcome, ncalls, attempted, computed, loaded,
                   failedFrame, computeCount, firstReturned, minimizeCalls, notQmVars>>

\* One call of qm.retrieve(), to its return or to the exception it raises.
Retrieve(preamble_fails, fails, t) ==
    /\ ncalls < MaxCalls
    /\ \E st \in {RunRetrieve(StartCall(disk, dirs, minimizer, mol_frame),
                              Config, preamble_fails, fails, t)} :
           /\ disk' = st.disk
           /\ dirs' = st.dirs
           /\ minimizer' = st.minimizer
           /\ mol_frame' = st.mol_frame
           /\ results' = IF st.raised THEN <<>> ELSE st.results
           /\ outcome' = IF st.raised THEN "raised" ELSE "returned"
           /\ attempted' = st.attempted
           /\ computed' = st.computed
           /\ loaded' = st.loaded
           /\ failedFrame' = st.failedFrame
           /\ minimizeCalls' = st.minimizeCalls
           /\ computeCount' =
                [k \in Frames |->
                    computeCount[k] + (IF k \in st.computed THEN 1 ELSE 0)]
           /\ firstReturned' =
                [k \in Frames |->
                    IF firstReturned[k] = <<>> /\ ~st.raised
                    THEN <<[call |-> ncalls + 1, record |-> st.results[k + 1]]>>
                    ELSE firstReturned[k]]
    /\ ncalls' = ncalls + 1
    /\ UNCHANGED <<backend, numFrames, version, optimize,
                   restrained_dihedrals, esp_points, notQmVars>>

\* What the environment decides in one call: whether the statements before
\* the loop raise (CustomQM has none) and the duration CustomQM measures
\* (the other backends measure none).
PreambleOutcomes == IF backend = "CustomQM" THEN {FALSE} ELSE BOOLEAN
MeasuredTimes == IF backend = "CustomQM" THEN Timings ELSE {1}

NextQM ==
    \/ \E b \in BOOLEAN : SetOptimize(b)
    \/ \E r \in {None, <<TheDihedral>>} : SetRestrainedDihedrals(r)
    \/ \E e \in {None, ThePoints} : SetEspPoints(e)
    \/ \E v \in {0, 1} : SetCoords(v)
    \/ \E p \in PreambleOutcomes, f \in -1..(numFrames - 1),
          t \in MeasuredTimes :
          Retrieve(p, f, t)

\* ------------------------------------------------------ filterQMResults
\* Handedness rdkit assigns to the stereocentre at geometry c.
Handedness(c) == IF c % 2 = 1 THEN "R" ELSE "S"

\* detectChiralCenters(mol): the list of (atom index, label) pairs; the
\* model molecule has one stereocentre, atom 0, or none.
DetectChiralCenters(m) ==
    IF m.chiral THEN << <<0, Handedness(m.coords)>> >> ELSE << >>

\* detectChiralCenters raises ValueError unless mol has exactly one frame.
DetectRaises(m) == m.numFrames # 1

\* Mutant of Errored: the error flag is not tested.
ErroredIgnored(result) == FALSE

\* "if result.errored:"
Errored(result) == result.errored

\* Mutant of ChiralityChanged: only the numbers of centres are compared.
ChiralityChangedByCount(initial_chiral_centers, chiral_centers) ==
    Len(initial_chiral_centers) # Len(chiral_centers)

\* "if initial_chiral_centers != chiral_centers:"
ChiralityChanged(initial_chiral_centers, chiral_centers) ==
    initial_chiral_centers # chiral_centers

\* Mutant of LogWarning: the high-energy removal is not logged.
LogWarningNotForEnergy(lg, reason, result) ==
    IF reason = "energy" THEN lg
    ELSE Append(lg, [reason |-> reason, id |-> result.id])

\* logger.warning(...): one line, recorded with its reason and the record
\* it is about.
LogWarning(lg, reason, result) ==
    Append(lg, [reason |-> reason, id |-> result.id])

\* Mutant of AppendValid: the record is inserted at the front.
InsertValidFirst(valid_results, result) == <<result>> \o valid_results

\* valid_results.append(result)
AppendValid(valid_results, result) == Append(valid_results, result)

\* new_results.append(result)
AppendNew(new_results, result) == Append(new_results, result)

\* Mutant of EnergyAccepted: the record of minimum energy is not accepted.
EnergyAcceptedAboveMinimum(relative_energy) ==
    0 < relative_energy /\ relative_energy < EnergyThreshold

\* "if relative_energy < 20:"
EnergyAccepted(relative_energy) == relative_energy < EnergyThreshold

\* mol.coords = result.coords on the private copy of the reference.
WithCoords(m, c) == [m EXCEPT !.coords = c, !.numFrames = 1]

RECURSIVE ScanResults(_, _, _, _, _)
\* "for result in results:" with the error and the chirality tests; acc
\* holds valid_results and the log.
ScanResults(rs, i, m, initial_chiral_centers, acc) ==
    IF i > Len(rs) THEN acc
    ELSE LET result == rs[i]
             next ==
               IF Errored(result)
               THEN [acc EXCEPT !.log = LogWarning(@, "failed", result)]
               ELSE IF m.given /\ ChiralityChanged(initial_chiral_centers,
                          DetectChiralCenters(WithCoords(m, result.coords)))
               THEN [acc EXCEPT !.log = LogWarning(@, "chiral", result)]
               ELSE [acc EXCEPT !.valid = AppendValid(@, result)]
         IN  ScanResults(rs, i + 1, m, initial_chiral_centers, next)

RECURSIVE SeqMin(_, _, _)
SeqMin(xs, i, best) ==
    IF i > Len(xs) THEN best
    ELSE SeqMin(xs, i + 1, IF xs[i].energy < best THEN xs[i].energy ELSE best)

\* np.min([result.energy for result in valid_results]), list not empty.
MinimumEnergy(valid_results) == SeqMin(valid_results, 2, valid_results[1].energy)

RECURSIVE RemoveHighEnergy(_, _, _, _)
\* "for result in valid_results:" of the energy step; acc holds new_results
\* and the log.
RemoveHighEnergy(vs, i, minimum_energy, acc) ==
    IF i > Len(vs) THEN acc
    ELSE LET result == vs[i]
             next ==
               IF EnergyAccepted(result.energy - minimum_energy)
               THEN [acc EXCEPT !.valid = AppendNew(@, result)]
               ELSE [acc EXCEPT !.log = LogWarning(@, "energy", result)]
         IN  RemoveHighEnergy(vs, i + 1, minimum_energy, next)

\* Mutant of FilterBatch: the minimum is taken over all records of the
\* batch, the errored and the chirality-inverted included.
FilterBatchMinOverAll(rs, m, initial_chiral_centers, lg) ==
    LET scanned == ScanResults(rs, 1, m, initial_chiral_centers,
                               [valid |-> <<>>, log |-> lg])
    IN  IF Len(scanned.valid) > 0
        THEN RemoveHighEnergy(scanned.valid, 1, MinimumEnergy(rs),
                              [valid |-> <<>>, log |-> scanned.log])
        ELSE scanned

\* The body of "for results in all_results:": the filtered batch and the
\* log grown by this batch's warnings.
FilterBatch(rs, m, initial_chiral_centers, lg) ==
    LET scanned == ScanResults(rs, 1, m, initial_chiral_centers,
                               [valid |-> <<>>, log |-> lg])
    IN  IF Len(scanned.valid) > 0
        THEN RemoveHighEnergy(scanned.valid, 1, MinimumEnergy(scanned.valid),
                              [valid |-> <<>>, log |-> scanned.log])
        ELSE scanned

RECURSIVE FilterBatchesDropEmpty(_, _, _, _, _)
RECURSIVE FilterBatches(_, _, _, _, _)
\* Mutant of FilterBatches: a batch left empty is not appended.
FilterBatchesDropEmpty(all, b, m, initial_chiral_centers, acc) ==
    IF b > Len(all) THEN acc
    ELSE LET one == FilterBatch(all[b], m, initial_chiral_centers, acc.log)
         IN  FilterBatchesDropEmpty(all, b + 1, m, initial_chiral_centers,
                 [out |-> IF one.valid = <<>> THEN acc.out
                          ELSE Append(acc.out, one.valid),
                  log |-> one.log, raised |-> FALSE])

\* "for results in all_results:" to "return all_valid_results"
FilterBatches(all, b, m, initial_chiral_centers, acc) ==
    IF b > Len(all) THEN acc
    ELSE LET one == FilterBatch(all[b], m, initial_chiral_centers, acc.log)
         IN  FilterBatches(all, b + 1, m, initial_chiral_centers,
                           [out |-> Append(acc.out, one.valid),
                            log |-> one.log, raised |-> FALSE])

\* filterQMResults(all_results, mol).  A Molecule object is true in
\* "if mol:"; mol.given is FALSE for mol=None.
FilterQMResults(all, m) ==
    IF m.given /\ DetectRaises(m)
    THEN [out |-> <<>>, log |-> <<>>, raised |-> TRUE]
    ELSE FilterBatches(all, 1, m, DetectChiralCenters(m),
                       [out |-> <<>>, log |-> <<>>, raised |-> FALSE])

\* ------------------------------------------------ filterQMResults: actions
\* Energies (kcal/mol) of the records given to the filter.
InputEnergies == {0, EnergyThreshold, EnergyThreshold + 1}
\* Geometries of the records given to the filter: one of each handedness.
InputCoords == {1, 2}

\* The records a caller may pass: an errored record's coordinates are not
\* read, so one value stands for them.
InputRecords ==
    {r \in [errored : BOOLEAN, coords : InputCoords, energy : InputEnergies] :
        r.errored => r.coords = 1}

\* The reference molecules a caller may pass: none, one without
\* stereocentre, one with a stereocentre of either handedness, and one with
\* two frames.
NoMolecule == [given |-> FALSE, chiral |-> FALSE, coords |-> 1, numFrames |-> 1]
ReferenceMolecules ==
    {NoMolecule} \cup
    {m \in [given : {TRUE}, chiral : BOOLEAN, coords : InputCoords,
            numFrames : {1, 2}] :
        /\ m.chiral \/ m.coords = 1
        /\ m.numFrames = 1 \/ (m.chiral /\ m.coords = 1)}

RECURSIVE TotalLen(_, _)
TotalLen(all, b) == IF b > Len(all) THEN 0 ELSE Len(all[b]) + TotalLen(all, b + 1)

InitFilter ==
    /\ all_results = <<>>
    /\ mol \in ReferenceMolecules
    /\ valid_out = <<>>
    /\ log = <<>>
    /\ fstatus = "input"
    /\ refiltered = None

\* The caller starts the batch of one more dihedral.
NewBatch ==
    /\ fstatus = "input"
    /\ Len(all_results) < MaxBatches
    /\ all_results' = Append(all_results, <<>>)
    /\ UNCHANGED <<mol, valid_out, log, fstatus, refiltered, notFilterVars>>

\* The caller appends one record to the last batch; id is the identity of
\* the record object: its batch and its position.
NewResult(r) ==
    /\ fstatus = "input"
    /\ Len(all_results) > 0
    /\ TotalLen(all_results, 1) < MaxRecords
    /\ LET b == Len(all_results)
           rec == [id |-> <<b, Len(all_results[b]) + 1>>,
                   errored |-> r.errored, coords |-> r.coords,
                   energy |-> r.energy]
       IN  all_results' = [all_results EXCEPT ![b] = Append(@, rec)]
    /\ UNCHANGED <<mol, valid_out, log, fstatus, refiltered, notFilterVars>>

\* One call filterQMResults(all_results, mol), to its return or exception.
FilterCall ==
    /\ fstatus = "input"
    /\ \E res \in {FilterQMResults(all_results, mol)} :
           /\ valid_out' = res.out
           /\ log' = res.log
           /\ fstatus' = IF res.raised THEN "raised" ELSE "returned"
    /\ UNCHANGED <<all_results, mol, refiltered, notFilterVars>>

\* filterQMResults(valid_results, m): a second call, on what the first one
\* returned, with the same reference molecule or with none.
FilterAgain(m) ==
    /\ fstatus = "returned"
    /\ refiltered = None
    /\ \E res \in {FilterQMResults(valid_out, m)} :
           refiltered' = <<[out |-> res.out, log |-> res.log,
                            raised |-> res.raised, given |-> m.given]>>
    /\ UNCHANGED <<all_results, mol, valid_out, log, fstatus, notFilterVars>>

NextFilter ==
    \/ NewBatch
    \/ \E r \in InputRecords : NewResult(r)
    \/ FilterCall

\* The reference molecules of a call that is followed by a second one: none,
\* one without stereocentre and one with a stereocentre.
RefilterMolecules ==
    {m \in ReferenceMolecules : m.coords = 1 /\ m.numFrames = 1}

InitRefilter == InitFilter /\ mol \in RefilterMolecules

NextRefilter ==
    \/ NextFilter
    \/ \E m \in {mol, NoMolecule} : FilterAgain(m)

\* ============================================================ getDipole
\* Reals are kept exact: a vector of rationals is its integer numerators
\* over one common denominator.
RECURSIVE Dot(_, _)
\* np.dot(a, b) of two integer sequences of one length.
Dot(a, b) ==
    IF a = <<>> THEN 0 ELSE Head(a) * Head(b) + Dot(Tail(a), Tail(b))

\* np.sum(a)
Sum(a) == Dot(a, [i \in DOMAIN a |-> 1])

\* coords[:, ax] of the current frame
Column(coords, ax) == [i \in DOMAIN coords |-> coords[i][ax]]

\* centreOfMass(mol): np.dot(masses, coords) / np.sum(masses), the division
\* carried out whatever the divisor is (numpy gives nan for 0/0, no raise).
centreOfMass(m) ==
    [numer |-> [ax \in 1..3 |-> Dot(m.masses, Column(m.coords, ax))],
     denom |-> Sum(m.masses)]

\* 1e11 * elementary_charge * speed_of_light: Debye per e * Angstrom,
\* 4.8 to two digits.
DebyeFactor == [numer |-> 48, denom |-> 10]

\* np.zeros(4)
Zeros4 == [xyz |-> <<0, 0, 0>>, norm_sq |-> 0, denom |-> 1]

\* The else-branch and the rest of getDipole: coordinates relative to the
\* centre of mass, dipole[:3] = np.dot(charge, coords), dipole[3] = its
\* norm (kept as its square), all four scaled to Debye.  The components are
\* xyz[ax] / denom and the total is sqrt(norm_sq) / denom.
DipoleAboutCentre(m) ==
    LET com == centreOfMass(m)
        d   == [ax \in 1..3 |->
                   Dot(m.charge, Column(m.coords, ax)) * com.denom
                       - Sum(m.charge) * com.numer[ax]]
        f   == DebyeFactor.numer
    IN  [value |-> [xyz |-> [ax \in 1..3 |-> d[ax] * f],
                    norm_sq |-> (d[1] * d[1] + d[2] * d[2] + d[3] * d[3]) * f * f,
                    denom |-> com.denom * DebyeFactor.denom],
         warnings |-> <<>>,
         com_calls |-> 1]

\* Mutant of getDipole: the test of the masses is left out.
getDipoleUnguarded(m) == DipoleAboutCentre(m)

\* getDipole(mol)
getDipole(m) ==
    IF Sum(m.masses) = 0
    THEN [value |-> Zeros4,
          warnings |-> <<"No masses found in Molecule. Cannot calculate dipole.">>,
          com_calls |-> 0]
    ELSE DipoleAboutCentre(m)

\* Atoms of the molecules given to getDipole.
MaxAtoms == 2
AtomMasses == {0, 1}
AtomCharges == {-1, 0, 1}
AtomPositions == {<<0, 0, 0>>, <<1, 0, 0>>, <<0, 1, 2>>}

InitDipole ==
    /\ \E n \in 0..MaxAtoms :
          dipole_mol \in [masses : [1..n -> AtomMasses],
                          charge : [1..n -> AtomCharges],
                          coords : [1..n -> AtomPositions]]
    /\ dipole_out = None
    /\ dipole_log = <<>>
    /\ dipole_status = "idle"
    /\ com_calls = 0

\* One call of getDipole(mol), which has no raise of its own.
GetDipoleCall ==
    /\ dipole_status = "idle"
    /\ \E st \in {getDipole(dipole_mol)} :
           /\ dipole_out' = <<st.value>>
           /\ dipole_log' = dipole_log \o st.warnings
           /\ com_calls' = com_calls + st.com_calls
    /\ dipole_status' = "returned"
    /\ UNCHANGED <<dipole_mol, notDipoleVars>>

NextDipole == GetDipoleCall

\* ================================================== makeAtomNamesUnique
\* An atom name is the sequence of its characters.
DigitChars == <<"0", "1", "2", "3", "4", "5", "6", "7", "8", "9">>
IsDigit(ch) == \E i \in DOMAIN DigitChars : DigitChars[i] = ch

\* str(n) for n >= 0
Str(n) == [i \in DOMAIN Digits(n) |-> DigitChars[Digits(n)[i] + 1]]

RECURSIVE ParseInt(_)
\* int(s) for a string of digits: leading zeros do not count.
ParseInt(ds) ==
    IF ds = <<>> THEN 0
    ELSE 10 * ParseInt(SubSeq(ds, 1, Len(ds) - 1))
             + (CHOOSE v \in 0..9 : DigitChars[v + 1] = ds[Len(ds)])

RECURSIVE TrailingDigits(_)
\* Length of the longest run of digits that ends the name.
TrailingDigits(name) ==
    IF name # <<>> /\ IsDigit(name[Len(name)])
    THEN 1 + TrailingDigits(SubSeq(name, 1, Len(name) - 1))
    ELSE 0

\* re.match("(.*?\D*)(\d*)$", name).groups(): the lazy first group gives
\* the second the longest run of digits that ends the name.
SplitName(name) ==
    LET n == TrailingDigits(name)
    IN  [prefix |-> SubSeq(name, 1, Len(name) - n),
         sufix  |-> SubSeq(name, Len(name) - n + 1, Len(name))]

\* np.flatnonzero(name == names)
SameName(name, names) == {k \in DOMAIN names : names[k] = name}

\* Mutant of SecondIndex: the first of the atoms that share the name.
FirstIndex(name, names) ==
    LET ks == SameName(name, names)
    IN  CHOOSE k \in ks : \A l \in ks : k <= l

\* np.flatnonzero(name == mol.name)[1]
SecondIndex(name, names) ==
    LET ks == SameName(name, names)
        first == CHOOSE k \in ks : \A l \in ks : k <= l
    IN  CHOOSE k \in ks \ {first} : \A l \in ks \ {first} : k <= l

\* Mutant of HasDuplicate: two atoms may share a name.
HasDuplicateOfThree(name, names) == Cardinality(SameName(name, names)) > 2

\* np.sum(name == mol.name) > 1
HasDuplicate(name, names) == Cardinality(SameName(name, names)) > 1

RECURSIVE UniqueSufix(_, _, _)
\* while prefix + str(sufix) in mol.name: sufix += 1
UniqueSufix(prefix, sufix, names) ==
    IF \E k \in DOMAIN names : names[k] = prefix \o Str(sufix)
    THEN UniqueSufix(prefix, sufix + 1, names)
    ELSE sufix

RECURSIVE RenameDuplicates(_, _)
\* The while loop for one name of the for loop; st holds the names and
\* the indices renamed so far.
RenameDuplicates(st, name) ==
    IF HasDuplicate(name, st.names)
    THEN LET j == SecondIndex(name, st.names)
             parts == SplitName(st.names[j])
             sufix == UniqueSufix(parts.prefix, ParseInt(parts.sufix), st.names)
         IN  RenameDuplicates(
                 [names |-> [st.names EXCEPT ![j] = parts.prefix \o Str(sufix)],
                  renamed |-> Append(st.renamed, j)],
                 name)
    ELSE st

RECURSIVE ForEachName(_, _)
\* for i, name in enumerate(mol.name): name is element i as it is when the
\* iteration reaches it.
ForEachName(st, i) ==
    IF i > Len(st.names) THEN st
    ELSE ForEachName(RenameDuplicates(st, st.names[i]), i + 1)

\* makeAtomNamesUnique(mol): all renaming is done on mol.copy(); mol is what
\* the caller's molecule holds afterwards, new_mol what is returned.
makeAtomNamesUnique(names) ==
    LET st == ForEachName([names |-> names, renamed |-> <<>>], 1)
    IN  [mol |-> names, new_mol |-> st.names, renamed |-> st.renamed]

\* Atom names given: plain, with a numeric suffix, with a suffix that has a
\* leading zero, starting with a digit, with digits inside, all digits.
MaxNames == 3
InputNames ==
    {<<"A">>, <<"B">>, <<"A", "0">>, <<"A", "1">>, <<"A", "0", "1">>,
     <<"1", "A">>, <<"A", "1", "B", "1">>, <<"1">>}

InitNames ==
    /\ \E n \in 0..MaxNames : mol_names \in [1..n -> InputNames]
    /\ given_names = mol_names
    /\ new_names = None
    /\ names_status = "idle"
    /\ renamed = <<>>
    /\ twice_names = None

\* One call of makeAtomNamesUnique(mol) on a Molecule.
MakeAtomNamesUniqueCall ==
    /\ names_status = "idle"
    /\ \E st \in {makeAtomNamesUnique(mol_names)} :
           /\ mol_names' = st.mol
           /\ new_names' = <<st.new_mol>>
           /\ renamed' = st.renamed
    /\ names_status' = "returned"
    /\ UNCHANGED <<given_names, twice_names, notNamesVars>>

\* makeAtomNamesUnique(new_mol): a second call, on the molecule the first
\* one returned.
MakeAtomNamesUniqueAgain ==
    /\ names_status = "returned"
    /\ twice_names = None
    /\ \E st \in {makeAtomNamesUnique(new_names[1])} :
           twice_names' = <<st.new_mol>>
    /\ UNCHANGED <<given_names, mol_names, new_names, names_status, renamed,
                   notNamesVars>>

NextNames == MakeAtomNamesUniqueCall \/ MakeAtomNamesUniqueAgain

\* ========================================================= OMMMinimizer
\* self.structure.createSystem(): the force field terms of the molecule.
CreateSystem ==
    <<[kind |-> "HarmonicBondForce", torsions |-> <<>>],
      [kind |-> "NonbondedForce", torsions |-> <<>>]>>

\* PeriodicTorsionForce with one torsion per restrained dihedral, its phase
\* the angle the dihedral has in coords.
RestraintForce(coords, restrained) ==
    [kind |-> "PeriodicTorsionForce",
     torsions |-> [i \in DOMAIN restrained |->
                      [atoms |-> restrained[i], phase |-> coords]]]

\* system.addForce(f): f gets the next index, which is returned (0-based).
AddForce(forces, f) == [forces |-> Append(forces, f), index |-> Len(forces)]

\* Mutant of RemoveForce: the force stays in the system.
RemoveForceSkipped(forces, index) == forces

\* system.removeForce(index)
RemoveForce(forces, index) ==
    SubSeq(forces, 1, index) \o SubSeq(forces, index + 2, Len(forces))

\* force_tolerance = 0.1 kcal/mol/A; forces are counted in tenths.
ForceTolerance == 1
\* max_attempts
MaxAttempts == 50
\* np.inf among the forces of the model
Infinity == 1000

\* The points of one minimize call: coords.reshape(-1), the coordinates
\* given, and result.x of run 1 or 2 of an attempt (attempts count from 1).
InputPoint == [attempt |-> 0, run |-> 0]
\* best_result = None
NoResult == [attempt |-> -1, run |-> 0]

\* best_force, best_result after "if max_force < best_force"
Better(best, max_force, point) ==
    IF max_force < best.force THEN [force |-> max_force, point |-> point]
    ELSE best

\* The x0 of the first run of attempt i: "minimize(goalFunc,
\* coords.reshape(-1), ...)", whatever best_result is.
StartOfAttempt(i, best) == InputPoint

\* One attempt, the body of "for i in range(max_attempts)": L-BFGS-B is
\* started at the coords given (run 1, ending with maximum force f1) and,
\* if that is above the tolerance, restarted once from the result (run 2,
\* ending with f2).
Attempt(i, best, f1, f2) ==
    LET b1 == Better(best, f1, [attempt |-> i, run |-> 1])
        restart == f1 > ForceTolerance
        max_force == IF restart THEN f2 ELSE f1
    IN  [start |-> StartOfAttempt(i, best),
         runs |-> IF restart THEN <<f1, f2>> ELSE <<f1>>,
         best |-> Better(b1, max_force,
                         [attempt |-> i, run |-> IF restart THEN 2 ELSE 1]),
         max_force |-> max_force]

\* Iteration i of "for i in range(max_attempts)"; st.done once the loop
\* was left by "if max_force <= force_tolerance: break".
AttemptStep(st, i, f1, f2) ==
    IF st.done THEN st
    ELSE LET a == Attempt(i, st.best, f1, f2)
         IN  [best |-> a.best, attempts |-> i, trace |-> Append(st.trace, a),
              done |-> a.max_force <= ForceTolerance]

RECURSIVE AttemptRange(_, _, _, _, _)
\* Iterations lo..hi in order: the first half, then the second.
AttemptRange(st, lo, hi, f1, f2) ==
    IF lo = hi THEN AttemptStep(st, lo, f1, f2)
    ELSE LET mid == (lo + hi) \div 2
         IN  CHOOSE out \in
                 {AttemptRange(half, mid + 1, hi, f1, f2) :
                      half \in {AttemptRange(st, lo, mid, f1, f2)}} : TRUE

\* best_result = None; best_force = np.inf; for i in range(max_attempts).
\* The optimizer is deterministic and every attempt starts at the coords
\* given, so every attempt ends as the first did.
AttemptLoop(f1, f2) ==
    AttemptRange([best |-> [force |-> Infinity, point |-> NoResult],
                  attempts |-> 0, trace |-> <<>>, done |-> FALSE],
                 1, MaxAttempts, f1, f2)

\* "if restrained_dihedrals:" is false for None and for an empty list,
\* which are one value here.
Restrained(restrained) == restrained # None

\* OMMMinimizer.minimize(coords, restrained_dihedrals).  fails: a call made
\* between addForce and removeForce (the Simulation, the context, the
\* optimizer) raises; nothing catches it.
Minimize(forces, coords, restrained, f1, f2, fails) ==
    LET added == IF Restrained(restrained)
                 THEN AddForce(forces, RestraintForce(coords, restrained))
                 ELSE [forces |-> forces, index |-> -1]
        forceidx == IF Restrained(restrained) THEN <<added.index>> ELSE <<>>
        loop == AttemptLoop(f1, f2)
        removed == IF Restrained(restrained)
                   THEN RemoveForce(added.forces, forceidx[1])
                   ELSE added.forces
    IN  IF fails
        THEN [system |-> added.forces, in_force |-> added.forces,
              raised |-> TRUE, minimized_coords |-> None,
              warnings |-> 0, attempts |-> 0, trace |-> <<>>]
        ELSE [system |-> removed, in_force |-> added.forces,
              raised |-> FALSE,
              minimized_coords |->
                  <<[start |-> coords, attempt |-> loop.best.point.attempt,
                     run |-> loop.best.point.run,
                     max_force |-> loop.best.force,
                     restrained |-> Restrained(restrained)]>>,
              warnings |-> IF loop.best.force > ForceTolerance THEN 1 ELSE 0,
              attempts |-> loop.attempts, trace |-> loop.trace]

MaxMinimizeCalls == 2
InputGeometries == {1, 2}
InputRestraints == {None, <<TheDihedral>>, <<TheDihedral, <<1, 2, 3, 4>>>>}
InputForces == {0, ForceTolerance, ForceTolerance + 1, ForceTolerance + 2}

\* OMMMinimizer(mol, prm): the system as created.
InitOmm ==
    /\ system = CreateSystem
    /\ minimized_coords = None
    /\ omm_status = "idle"
    /\ omm_warnings = 0
    /\ omm_attempts = 0
    /\ omm_calls = <<>>
    /\ omm_trace = <<>>

\* One call of mm_minimizer.minimize(coords, restrained_dihedrals).
MinimizeCall(coords, restrained, f1, f2, fails) ==
    /\ Len(omm_calls) < MaxMinimizeCalls
    /\ \E st \in {Minimize(system, coords, restrained, f1, f2, fails)} :
           /\ system' = st.system
           /\ minimized_coords' = st.minimized_coords
           /\ omm_status' = IF st.raised THEN "raised" ELSE "returned"
           /\ omm_warnings' = st.warnings
           /\ omm_attempts' = st.attempts
           /\ omm_trace' = st.trace
           /\ omm_calls' = Append(omm_calls,
                                  [coords |-> coords,
                                   restrained_dihedrals |-> restrained,
                                   in_force |-> st.in_force,
                                   raised |-> st.raised])
    /\ UNCHANGED notOmmVars

\* What the optimizer and OpenMM decide in one call: the forces the two
\* runs end with (the second only matters if the first is above the
\* tolerance), or an exception.
RunOutcomes ==
    {o \in InputForces \X InputForces \X BOOLEAN :
        /\ o[3] => o[1] = 0
        /\ o[1] <= ForceTolerance => o[2] = 0}

NextOmm ==
    \E c \in InputGeometries, r \in InputRestraints, o \in RunOutcomes :
        MinimizeCall(c, r, o[1], o[2], o[3])

\* ======================================================== scanDihedrals
\* Strings that are taken apart or put together are sequences of characters.
RECURSIVE Join(_, _)
\* sep.join(parts)
Join(sep, parts) ==
    IF parts = <<>> THEN <<>>
    ELSE IF Len(parts) = 1 THEN parts[1]
    ELSE parts[1] \o sep \o Join(sep, Tail(parts))

RECURSIVE ReSub(_, _, _)
\* re.sub of one escaped character: every occurrence is replaced.
ReSub(char, repl, string) ==
    IF string = <<>> THEN <<>>
    ELSE (IF Head(string) = char THEN repl ELSE <<Head(string)>>)
             \o ReSub(char, repl, Tail(string))

\* _qm_method_name(qm)
QmMethodName(qm) ==
    LET basis == ReSub("*", <<"s", "t", "a", "r">>,
                       ReSub("+", <<"p", "l", "u", "s">>, qm.basis))
    IN  qm.theory \o <<"-">> \o basis \o <<"-">> \o qm.solvent

\* "-".join(mol.name[dihedral])
DihedralName(names, dihedral) ==
    Join(<<"-">>, [i \in 1..4 |-> names[dihedral[i] + 1]])

\* "dihedral-opt" if scan_type == "qm" else "dihedral-single-point"
DihedralDirectory(type) ==
    IF type = "qm"
    THEN
         <<"d", "i", "h", "e", "d", "r", "a", "l", "-", "o", "p", "t">>
    ELSE
         <<"d", "i", "h", "e", "d", "r", "a", "l", "-", "s", "i", "n", "g",
           "l", "e", "-", "p", "o", "i", "n", "t">>

\* Mutant of ScanDirectory: the dihedral is left out of the path.
ScanDirectoryWithoutDihedral(outdir, type, names, dihedral, qm) ==
    Join(<<"/">>, <<outdir, DihedralDirectory(type), QmMethodName(qm)>>)

\* os.path.join(outdir, dihedral_directory, dihedral_name,
\* _qm_method_name(ref))
ScanDirectory(outdir, type, names, dihedral, qm) ==
    Join(<<"/">>, <<outdir, DihedralDirectory(type),
                    DihedralName(names, dihedral), QmMethodName(qm)>>)

\* Angles are counted in degrees: np.pi is 180.
Pi == 180
\* num_rotamers
NumRotamers == 36

\* np.linspace(start, stop, num=num, endpoint=endpoint), element k = 0.. at
\* index k + 1.
Linspace(start, stop, num, endpoint) ==
    [k \in 1..num |->
        start + ((k - 1) * (stop - start))
                    \div (IF endpoint THEN num - 1 ELSE num)]

\* Mutant of RotamerAngles: the end point is one of the angles.
RotamerAnglesWithEndpoint == Linspace(-Pi, Pi, NumRotamers, TRUE)

\* angles = np.linspace(-np.pi, np.pi, num=num_rotamers, endpoint=False)
RotamerAngles == Linspace(-Pi, Pi, NumRotamers, FALSE)

\* new_mol: the copy of mol tiled to num_rotamers frames, frame k with the
\* dihedral set to angle k.  A frame is what distinguishes it from mol.
RotamerMolecule(dihedral) ==
    [k \in 1..NumRotamers |->
        [dihedral |-> dihedral, angle |-> RotamerAngles[k],
         minimized |-> FALSE]]

\* mm_minimizer.minimize(frame, restrained_dihedrals=[dihedral]): the frame
\* relaxed with its dihedral angle kept.
MMMinimized(frame) == [frame EXCEPT !.minimized = TRUE]

\* The attributes of ref that scanDihedrals sets.
NoConfig ==
    [molecule |-> None, esp_points |-> None, optimize |-> FALSE,
     restrained_dihedrals |-> None, directory |-> None]

\* One call on ref (setup, submit, retrieve: config is what ref holds then)
\* or on mm_minimizer (minimize: config holds the restrained dihedrals).
Call(op, index, frame, config) ==
    [op |-> op, index |-> index, frame |-> frame, config |-> config]

ConfigOf(r) ==
    [molecule |-> r.molecule, esp_points |-> r.esp_points,
     optimize |-> r.optimize,
     restrained_dihedrals |-> r.restrained_dihedrals,
     directory |-> r.directory]

\* ref.molecule = molecule; ref.esp_points = None; ref.optimize = scan_type
\* == "qm"; ref.restrained_dihedrals = np.array([dihedral]); ref.directory
\* = directory
Configure(r, molecule, dihedral, directory, type) ==
    [r EXCEPT !.molecule = molecule, !.esp_points = None,
              !.optimize = (type = "qm"),
              !.restrained_dihedrals = <<dihedral>>,
              !.directory = directory]

\* Mutant of Reconfigure: ref is retrieved as the last submit left it.
ReconfigureSkipped(r, molecule, dihedral, directory, type) == r

\* The same five assignments before setup and retrieve.
Reconfigure(r, molecule, dihedral, directory, type) ==
    Configure(r, molecule, dihedral, directory, type)

\* What a record holds of the configuration it is computed under: the
\* coordinates of its frame, the optimize flag and the restraints.
Content(r, k) ==
    [input |-> r.molecule[k], optimize |-> r.optimize,
     restrained_dihedrals |-> r.restrained_dihedrals]

\* os.path.join(directory, "data.pkl") of frame k - 1 of ref.molecule
PickleFile(r, k) == <<r.directory, FrameDirectory(k - 1)>>

\* ref.retrieve(): one record per frame of ref.molecule; the frames go in
\* order, a frame whose directory holds data.pkl is loaded, any other is
\* computed under what ref holds and stored.  fail_frame is the frame whose
\* computation raises, -1 for none.  A record is tagged with what ref held
\* when it was retrieved; computed is what it holds.
RefRetrieve(r, files, fail_frame) ==
    LET frames == DOMAIN r.molecule
        cached == {k \in frames : PickleFile(r, k) \in DOMAIN files}
        raised == (fail_frame + 1) \in frames \ cached
        done == IF raised THEN {k \in frames : k <= fail_frame} ELSE frames
        written == {PickleFile(r, k) : k \in done \ cached}
    IN  [raised |-> raised,
         disk |-> [f \in (DOMAIN files) \cup written |->
                     IF f \in DOMAIN files THEN files[f]
                     ELSE Content(r, CHOOSE k \in frames : PickleFile(r, k) = f)],
         results |->
             [k \in frames |->
                 [frame |-> k - 1, input |-> r.molecule[k],
                  optimize |-> r.optimize,
                  restrained_dihedrals |-> r.restrained_dihedrals,
                  esp_points |-> r.esp_points, directory |-> r.directory,
                  computed |-> IF k \in cached THEN files[PickleFile(r, k)]
                               ELSE Content(r, k)]]]

RECURSIVE MinimizeFrames(_, _, _)
\* Mutant of MinimizeFrames: only the frame the loop starts with is
\* minimized.
MinimizeFirstFrameOnly(index, dihedral, iframe) ==
    <<Call("minimize", index, iframe,
           [NoConfig EXCEPT !.restrained_dihedrals = <<dihedral>>])>>

\* for iframe in range(molecule.numFrames): the calls of one dihedral
MinimizeFrames(index, dihedral, iframe) ==
    IF iframe >= NumRotamers THEN <<>>
    ELSE <<Call("minimize", index, iframe,
                [NoConfig EXCEPT !.restrained_dihedrals = <<dihedral>>])>>
             \o MinimizeFrames(index, dihedral, iframe + 1)

RECURSIVE MinimizeAll(_, _)
\* The calls of "if scan_type == 'mm'", all dihedrals in order.
MinimizeAll(dihedrals, index) ==
    IF index > Len(dihedrals) THEN <<>>
    ELSE MinimizeFrames(index, dihedrals[index], 0)
             \o MinimizeAll(dihedrals, index + 1)

RECURSIVE SubmitAll(_, _, _, _, _)
\* "Setup and submit QM calculations"; st holds ref and the calls so far.
SubmitAll(st, molecules, dihedrals, directories, type) ==
    IF molecules = <<>> THEN st
    ELSE LET index == Len(st.submitted) + 1
             r == Configure(st.ref, Head(molecules), Head(dihedrals),
                            Head(directories), type)
         IN  SubmitAll(
                 [st EXCEPT !.ref = r,
                            !.submitted = Append(@, index),
                            !.calls = @ \o <<Call("setup", index, -1, ConfigOf(r)),
                                             Call("submit", index, -1, ConfigOf(r))>>],
                 Tail(molecules), Tail(dihedrals), Tail(directories), type)

RECURSIVE RetrieveAll(_, _, _, _, _, _, _)
\* "Wait and retrieve QM calculation data"; fails is the position of the
\* dihedral whose retrieve raises in frame fail_frame, 0 for none.
RetrieveAll(st, molecules, dihedrals, directories, type, fails, fail_frame) ==
    IF molecules = <<>> \/ st.raised THEN st
    ELSE LET index == Len(st.scan_results) + 1
             r == Reconfigure(st.ref, Head(molecules), Head(dihedrals),
                              Head(directories), type)
             called == [st EXCEPT
                          !.ref = r,
                          !.calls = @ \o <<Call("setup", index, -1, ConfigOf(r)),
                                           Call("retrieve", index, -1, ConfigOf(r))>>]
         IN  CHOOSE out \in
                 {IF got.raised
                  THEN [called EXCEPT !.raised = TRUE, !.disk = got.disk]
                  ELSE RetrieveAll(
                           [called EXCEPT !.scan_results = Append(@, got.results),
                                          !.disk = got.disk],
                           Tail(molecules), Tail(dihedrals), Tail(directories),
                           type, fails, fail_frame) :
                      got \in {RefRetrieve(r, st.disk,
                                           IF fails = index THEN fail_frame
                                           ELSE -1)}} : TRUE

\* scanDihedrals(mol, ref, dihedrals, outdir, scan_type, mm_minimizer) with
\* the files under outdir.
ScanDihedrals(names, r, dihedrals, outdir, type, minimizer_given, files, fails, fail_frame) ==
    LET generated == [i \in DOMAIN dihedrals |-> RotamerMolecule(dihedrals[i])]
        start == [ref |-> r, rotamers |-> generated, calls |-> <<>>,
                  submitted |-> <<>>, scan_results |-> <<>>, raised |-> FALSE,
                  disk |-> files]
        \* None has no minimize
        no_minimizer == type = "mm" /\ ~minimizer_given /\ dihedrals # <<>>
        molecules == IF type = "mm"
                     THEN [i \in DOMAIN generated |->
                              [k \in DOMAIN generated[i] |->
                                  MMMinimized(generated[i][k])]]
                     ELSE generated
        minimized == IF type = "mm"
                     THEN [start EXCEPT !.calls = MinimizeAll(dihedrals, 1)]
                     ELSE start
        directories == [i \in DOMAIN dihedrals |->
                           ScanDirectory(outdir, type, names, dihedrals[i], r)]
    IN  IF no_minimizer
        THEN [start EXCEPT !.raised = TRUE]
        ELSE RetrieveAll(
                 SubmitAll(minimized, molecules, dihedrals, directories, type),
                 molecules, dihedrals, directories, type, fails, fail_frame)

\* Molecules of five atoms in a chain: names all different, and names that
\* are the element only.
UniqueNames ==
    <<<<"C", "1">>, <<"C", "2">>, <<"C", "3">>, <<"C", "4">>, <<"C", "5">>>>
ElementNames ==
    <<<<"C">>, <<"C">>, <<"C">>, <<"C">>, <<"C">>>>
MoleculeNames == {UniqueNames, ElementNames}

\* Dihedrals of the chain.
Dihedrals == {<<0, 1, 2, 3>>, <<1, 2, 3, 4>>, <<3, 2, 1, 0>>}
MaxDihedrals == 2
ScanTypes == {"qm", "mm", "None"}
OutDir == <<"o", "u", "t">>

\* theory, basis and solvent of the backend.
Theories == {<<"H", "F">>, <<"B", "3", "L", "Y", "P">>}
Bases ==
    {<<"6", "-", "3", "1", "G", "*">>,
     <<"6", "-", "3", "1", "+", "G", "*">>,
     <<"c", "c", "-", "p", "V", "D", "Z">>}
Solvents ==
    {<<"v", "a", "c", "u", "u", "m">>,
     <<"P", "C", "M">>}
Methods == [theory : Theories, basis : Bases, solvent : Solvents]
ScanMethods ==
    {[theory |-> <<"H", "F">>,
      basis |-> <<"6", "-", "3", "1", "G", "*">>,
      solvent |-> <<"v", "a", "c", "u", "u", "m">>],
     [theory |-> <<"B", "3", "L", "Y", "P">>,
      basis |-> <<"6", "-", "3", "1", "+", "G", "*">>,
      solvent |-> <<"P", "C", "M">>]}

\* What ref holds when scanDihedrals is called: nothing set, or what an
\* earlier job left (ESP points, no restraint, another directory).
LeftOver ==
    [NoConfig EXCEPT !.esp_points = ThePoints, !.optimize = TRUE,
                     !.directory = OutDir]

WithMethod(config, method) ==
    [molecule |-> config.molecule, esp_points |-> config.esp_points,
     optimize |-> config.optimize,
     restrained_dihedrals |-> config.restrained_dihedrals,
     directory |-> config.directory,
     theory |-> method.theory, basis |-> method.basis,
     solvent |-> method.solvent]

InitScan ==
    /\ scan_names \in MoleculeNames
    /\ \E n \in 0..MaxDihedrals : scan_dihedrals \in [1..n -> Dihedrals]
    /\ scan_type \in ScanTypes
    /\ mm_given \in BOOLEAN
    /\ ref \in {WithMethod(c, m) : c \in {NoConfig, LeftOver}, m \in ScanMethods}
    /\ rotamers = <<>>
    /\ calls = <<>>
    /\ scan_results = None
    /\ scan_status = "idle"
    /\ scan_disk = <<>>
    /\ scans = 0

\* One call of scanDihedrals on an empty outdir, to its return or to the
\* exception it raises.
ScanCall(fails, fail_frame) ==
    /\ scan_status = "idle"
    /\ \E st \in {ScanDihedrals(scan_names, ref, scan_dihedrals, OutDir,
                               scan_type, mm_given, scan_disk, fails,
                               fail_frame)} :
           /\ ref' = st.ref
           /\ rotamers' = st.rotamers
           /\ calls' = st.calls
           /\ scan_results' = IF st.raised THEN None ELSE <<st.scan_results>>
           /\ scan_status' = IF st.raised THEN "raised" ELSE "returned"
           /\ scan_disk' = st.disk
    /\ scans' = scans + 1
    /\ UNCHANGED <<scan_names, scan_dihedrals, scan_type, mm_given,
                   notScanVars>>

\* The frame in whose computation a retrieve may raise: one in the middle,
\* so that the frames before it are stored.
FailFrames == {18}

NextScan ==
    \E fails \in 0..Len(scan_dihedrals), fail_frame \in FailFrames :
        ScanCall(fails, fail_frame)

\* ------------------------------------- scans that follow one another
\* Largest number of scanDihedrals calls on one outdir.
MaxScans == 2
\* The lists of dihedrals given to these calls.
RescanDihedrals == {<<>>, <<(<<0, 1, 2, 3>>)>>, <<(<<1, 2, 3, 4>>)>>}

\* The molecule with unique names, a backend object and an empty outdir.
InitRescan ==
    /\ scan_names = UniqueNames
    /\ scan_dihedrals = <<>>
    /\ scan_type = "qm"
    /\ mm_given = TRUE
    /\ ref = WithMethod(NoConfig, CHOOSE m \in ScanMethods : m.theory = <<"H", "F">>)
    /\ rotamers = <<>>
    /\ calls = <<>>
    /\ scan_results = None
    /\ scan_status = "idle"
    /\ scan_disk = <<>>
    /\ scans = 0

\* One more call scanDihedrals(mol, ref, dihedrals, outdir, type,
\* mm_minimizer) with the same mol, ref, outdir and mm_minimizer.
Rescan(type, dihedrals, fails, fail_frame) ==
    /\ scans < MaxScans
    /\ fails <= Len(dihedrals)
    /\ \E st \in {ScanDihedrals(scan_names, ref, dihedrals, OutDir, type,
                               mm_given, scan_disk, fails, fail_frame)} :
           /\ ref' = st.ref
           /\ rotamers' = st.rotamers
           /\ calls' = st.calls
           /\ scan_results' = IF st.raised THEN None ELSE <<st.scan_results>>
           /\ scan_status' = IF st.raised THEN "raised" ELSE "returned"
           /\ scan_disk' = st.disk
    /\ scan_type' = type
    /\ scan_dihedrals' = dihedrals
    /\ scans' = scans + 1
    /\ UNCHANGED <<scan_names, mm_given, notScanVars>>

NextRescan ==
    \E type \in ScanTypes, dihedrals \in RescanDihedrals, fails \in {0, 1},
       fail_frame \in FailFrames :
        Rescan(type, dihedrals, fails, fail_frame)

\* ------------------------------------------------ scan job directories
Jobs ==
    [scan_type : ScanTypes, dihedral : Dihedrals, method : Methods]

InitJobs ==
    /\ job_names \in MoleculeNames
    /\ job_a \in Jobs
    /\ job_b \in Jobs
    /\ dir_a = None
    /\ dir_b = None

\* The directories scanDihedrals makes for the two jobs under one outdir.
MakeDirectories ==
    /\ dir_a = None
    /\ dir_a' = <<ScanDirectory(OutDir, job_a.scan_type, job_names,
                                job_a.dihedral, job_a.method)>>
    /\ dir_b' = <<ScanDirectory(OutDir, job_b.scan_type, job_names,
                                job_b.dihedral, job_b.method)>>
    /\ UNCHANGED <<job_a, job_b, job_names, notJobVars>>

NextJobs == MakeDirectories

\* ==================================================== fixPhosphateTypes
\* A molecule: element, charge and atomtype per atom, bonds (pairs of atoms)
\* and bondtype per bond.  Atoms and bonds are counted from 1 here, from 0
\* in the code.

RECURSIVE NeighborsFrom(_, _, _)
\* list(graph.neighbors(node)) for the bonds from the i-th on: networkx
\* keeps the neighbours of a node in the order their edges were added, each
\* once.
NeighborsFrom(m, node, i) ==
    IF i > Len(m.bonds) THEN <<>>
    ELSE LET bond == m.bonds[i]
             other == IF bond[1] = node THEN <<bond[2]>>
                      ELSE IF bond[2] = node THEN <<bond[1]>>
                      ELSE <<>>
             rest == NeighborsFrom(m, node, i + 1)
             Keep(x) == other = <<>> \/ x # other[1]
         IN  other \o SelectSeq(rest, Keep)

\* _getMolecularGraph(molecule), graph.neighbors(node)
Neighbors(m, node) == NeighborsFrom(m, node, 1)

\* graph.edges[(node, neighbor)]["index"]: add_edge of an edge the graph has
\* replaces its index, so the last bond of the pair gives it.
EdgeIndex(m, a, b) ==
    LET joins == {i \in DOMAIN m.bonds :
                     m.bonds[i] = <<a, b>> \/ m.bonds[i] = <<b, a>>}
    IN  CHOOSE i \in joins : \A j \in joins : j <= i

\* is_oxygen; neighbors = filter(is_oxygen, neighbors)
IsOxygen(m, node) == m.element[node] = "O"
FilterOxygens(m, neighbors) ==
    LET Oxygen(x) == IsOxygen(m, x) IN SelectSeq(neighbors, Oxygen)

RECURSIVE InsertByCharge(_, _, _)
\* x put behind every element of the sorted list whose charge is not below
\* its own.
InsertByCharge(m, x, sorted) ==
    IF sorted = <<>> THEN <<x>>
    ELSE IF m.charge[Head(sorted)] >= m.charge[x]
         THEN <<Head(sorted)>> \o InsertByCharge(m, x, Tail(sorted))
         ELSE <<x>> \o sorted

RECURSIVE SortFrom(_, _, _, _)
SortFrom(m, neighbors, i, sorted) ==
    IF i > Len(neighbors) THEN sorted
    ELSE SortFrom(m, neighbors, i + 1, InsertByCharge(m, neighbors[i], sorted))

\* sorted(neighbors, key=charge, reverse=True): descending charge, atoms of
\* equal charge in the order they had.
SortedByCharge(m, neighbors) == SortFrom(m, neighbors, 1, <<>>)

\* Mutant of NewTypes: every terminal oxygen is given the double bond.
NewTypesEveryTerminalDouble(num_bonds, num_double) ==
    IF num_bonds = 2
    THEN [new_atom |-> "O.3", new_bond |-> "1", double |-> 0, raises |-> FALSE]
    ELSE IF num_bonds = 1
    THEN [new_atom |-> "O.2", new_bond |-> "2", double |-> 1, raises |-> FALSE]
    ELSE [new_atom |-> "", new_bond |-> "", double |-> 0, raises |-> TRUE]

\* The if/elif chain on num_bonds and num_double: the new types, the
\* increment of num_double, or raise ValueError().
NewTypes(num_bonds, num_double) ==
    IF num_bonds = 2
    THEN [new_atom |-> "O.3", new_bond |-> "1", double |-> 0, raises |-> FALSE]
    ELSE IF num_bonds = 1 /\ num_double = 0
    THEN [new_atom |-> "O.2", new_bond |-> "2", double |-> 1, raises |-> FALSE]
    ELSE IF num_bonds = 1 /\ num_double = 1
    THEN [new_atom |-> "O.3", new_bond |-> "1", double |-> 0, raises |-> FALSE]
    ELSE [new_atom |-> "", new_bond |-> "", double |-> 0, raises |-> TRUE]

RECURSIVE FixOxygens(_, _, _, _)
\* "for neighbor in neighbors:" of one P atom; st holds atomtype and
\* bondtype of the copy, num_double and whether ValueError was raised.
FixOxygens(m, st, node, neighbors) ==
    IF neighbors = <<>> \/ st.raised THEN st
    ELSE LET neighbor == Head(neighbors)
             num_bonds == Len(Neighbors(m, neighbor))
             new == NewTypes(num_bonds, st.num_double)
             bond_index == EdgeIndex(m, node, neighbor)
         IN  IF new.raises THEN [st EXCEPT !.raised = TRUE]
             ELSE FixOxygens(m,
                      [st EXCEPT !.atomtype[neighbor] = new.new_atom,
                                 !.bondtype[bond_index] = new.new_bond,
                                 !.num_double = @ + new.double],
                      node, Tail(neighbors))

RECURSIVE FixNodes(_, _, _)
\* "for node in graph.nodes:": atoms that are not P, and P atoms without 4
\* atoms connected, are skipped.
FixNodes(m, st, node) ==
    IF node > Len(m.element) \/ st.raised THEN st
    ELSE IF m.element[node] # "P" \/ Len(Neighbors(m, node)) # 4
    THEN FixNodes(m, st, node + 1)
    ELSE FixNodes(m,
             FixOxygens(m, [st EXCEPT !.num_double = 0], node,
                        SortedByCharge(m, FilterOxygens(m, Neighbors(m, node)))),
             node + 1)

\* fixPhosphateTypes(molecule): all changes are made on molecule.copy();
\* mol is what the caller's molecule holds afterwards, new_mol what is
\* returned.
fixPhosphateTypes(m) ==
    LET st == FixNodes(m, [atomtype |-> m.atomtype, bondtype |-> m.bondtype,
                           num_double |-> 0, raised |-> FALSE], 1)
    IN  [mol |-> m, raised |-> st.raised,
         new_mol |-> [m EXCEPT !.atomtype = st.atomtype,
                               !.bondtype = st.bondtype]]

\* ------------------------------------------- fixPhosphateTypes: actions
\* Largest number of further atoms bonded to a neighbour of the P atom.
MaxExtra == 2

\* Atom and bond type a neighbour oxygen is given with.
GivenTypes ==
    {[atomtype |-> "O.co2", bondtype |-> "ar"],
     [atomtype |-> "O.3", bondtype |-> "1"],
     [atomtype |-> "O.2", bondtype |-> "2"]}

\* The neighbours of the P atom: terminal oxygens of charge -1 or 0,
\* oxygens bonded to an H or to a P that has no other neighbour, oxygens
\* bonded to two or more further atoms, and a carbon.
NeighborKinds ==
    {[element |-> "O", charge |-> q, atomtype |-> t.atomtype,
      bondtype |-> t.bondtype, extras |-> <<>>] :
          q \in {-1, 0}, t \in GivenTypes}
    \cup
    {[element |-> "O", charge |-> -1, atomtype |-> t.atomtype,
      bondtype |-> t.bondtype, extras |-> <<x>>] :
          x \in {"H", "P"}, t \in GivenTypes \ {[atomtype |-> "O.co2", bondtype |-> "ar"]}}
    \cup
    {[element |-> "O", charge |-> 0, atomtype |-> "O.3", bondtype |-> "1",
      extras |-> [i \in 1..n |-> "H"]] : n \in 2..MaxExtra}
    \cup
    {[element |-> "C", charge |-> 0, atomtype |-> "C.3", bondtype |-> "2",
      extras |-> <<>>]}

RECURSIVE ExtraAtoms(_, _)
\* The further atoms, neighbour by neighbour, each with the atom it is
\* bonded to.
ExtraAtoms(kinds, j) ==
    IF j > Len(kinds) THEN <<>>
    ELSE [i \in 1..Len(kinds[j].extras) |->
             [element |-> kinds[j].extras[i], parent |-> j + 1]]
         \o ExtraAtoms(kinds, j + 1)

\* The molecule of a P atom (atom 1) with the neighbours given (atoms 2..)
\* and their further atoms; an O--P bond to a further P is given type 2.
PhosphateMolecule(kinds) ==
    LET c == Len(kinds)
        ex == ExtraAtoms(kinds, 1)
    IN  [element |-> <<"P">> \o [j \in 1..c |-> kinds[j].element]
                         \o [i \in 1..Len(ex) |-> ex[i].element],
         charge |-> <<0>> \o [j \in 1..c |-> kinds[j].charge]
                        \o [i \in 1..Len(ex) |-> 0],
         atomtype |-> <<"P.3">> \o [j \in 1..c |-> kinds[j].atomtype]
                          \o [i \in 1..Len(ex) |->
                                 IF ex[i].element = "P" THEN "P.3" ELSE "H"],
         bonds |-> [j \in 1..c |-> <<1, j + 1>>]
                       \o [i \in 1..Len(ex) |-> <<ex[i].parent, 1 + c + i>>],
         bondtype |-> [j \in 1..c |-> kinds[j].bondtype]
                          \o [i \in 1..Len(ex) |->
                                 IF ex[i].element = "P" THEN "2" ELSE "1"]]

\* The numbers of neighbours of the P atom.
Coordinations == {3, 4}

InitFix ==
    /\ \E c \in Coordinations :
          \E kinds \in [1..c -> NeighborKinds] :
              fix_mol = PhosphateMolecule(kinds)
    /\ fix_given = fix_mol
    /\ fix_out = None
    /\ fix_status = "idle"

\* One call of fixPhosphateTypes(molecule), to its return or ValueError.
FixPhosphateTypesCall ==
    /\ fix_status = "idle"
    /\ \E st \in {fixPhosphateTypes(fix_mol)} :
           /\ fix_mol' = st.mol
           /\ fix_out' = IF st.raised THEN None ELSE <<st.new_mol>>
           /\ fix_status' = IF st.raised THEN "raised" ELSE "returned"
    /\ UNCHANGED <<fix_given, notFixVars>>

NextFix == FixPhosphateTypesCall

\* ------------------------------------------------------- specifications
\* Each component at rest while another one is exercised.
IdleQM == InitQM /\ backend = "FakeQM" /\ numFrames = 1
IdleFilter == InitFilter /\ mol = NoMolecule
IdleDipole ==
    /\ dipole_mol = [masses |-> <<>>, charge |-> <<>>, coords |-> <<>>]
    /\ dipole_out = None
    /\ dipole_log = <<>>
    /\ dipole_status = "idle"
    /\ com_calls = 0
IdleNames ==
    /\ mol_names = <<>>
    /\ given_names = <<>>
    /\ new_names = None
    /\ names_status = "idle"
    /\ renamed = <<>>
    /\ twice_names = None
IdleOmm == InitOmm
IdleScan ==
    /\ scan_names = UniqueNames
    /\ scan_dihedrals = <<>>
    /\ scan_type = "qm"
    /\ mm_given = FALSE
    /\ ref = WithMethod(NoConfig, CHOOSE m \in ScanMethods : m.theory = <<"H", "F">>)
    /\ rotamers = <<>>
    /\ calls = <<>>
    /\ scan_results = None
    /\ scan_status = "idle"
    /\ scan_disk = <<>>
    /\ scans = 0
IdleJobs ==
    /\ job_names = UniqueNames
    /\ job_a = [scan_type |-> "qm", dihedral |-> <<0, 1, 2, 3>>,
                method |-> CHOOSE m \in ScanMethods : m.theory = <<"H", "F">>]
    /\ job_b = job_a
    /\ dir_a = None
    /\ dir_b = None

IdleFix ==
    /\ fix_given = PhosphateMolecule(<<>>)
    /\ fix_mol = PhosphateMolecule(<<>>)
    /\ fix_out = None
    /\ fix_status = "idle"
vars == <<qmVars, filterVars, dipoleVars, namesVars, ommVars, scanVars,
          jobVars, fixVars>>

\* The backend with its job directory; no filter call is under way.
Init == InitQM /\ IdleFilter /\ IdleDipole /\ IdleNames /\ IdleOmm
            /\ IdleScan /\ IdleJobs
        /\ IdleFix

Next == NextQM

Spec == Init /\ [][Next]_vars

\* filterQMResults on every input within the bounds; the backend is idle.
InitFilterSpec ==
    InitFilter /\ IdleQM /\ IdleDipole /\ IdleNames /\ IdleOmm /\ IdleScan
        /\ IdleJobs
        /\ IdleFix

SpecFilter == InitFilterSpec /\ [][NextFilter]_vars

\* filterQMResults, then filterQMResults on what it returned.
InitRefilterSpec ==
    InitRefilter /\ IdleQM /\ IdleDipole /\ IdleNames /\ IdleOmm /\ IdleScan
        /\ IdleJobs
        /\ IdleFix
SpecRefilter == InitRefilterSpec /\ [][NextRefilter]_vars

\* getDipole on every molecule within the bounds.
InitDipoleSpec ==
    InitDipole /\ IdleQM /\ IdleFilter /\ IdleNames /\ IdleOmm /\ IdleScan
        /\ IdleJobs
        /\ IdleFix
SpecDipole == InitDipoleSpec /\ [][NextDipole]_vars

\* makeAtomNamesUnique on every list of names within the bounds.
InitNamesSpec ==
    InitNames /\ IdleQM /\ IdleFilter /\ IdleDipole /\ IdleOmm /\ IdleScan
        /\ IdleJobs
        /\ IdleFix
SpecNames == InitNamesSpec /\ [][NextNames]_vars

\* Calls of minimize on one OMMMinimizer.
InitOmmSpec ==
    InitOmm /\ IdleQM /\ IdleFilter /\ IdleDipole /\ IdleNames /\ IdleScan
        /\ IdleJobs
        /\ IdleFix
SpecOmm == InitOmmSpec /\ [][NextOmm]_vars

\* One call of scanDihedrals on every input within the bounds.
InitScanSpec ==
    InitScan /\ IdleQM /\ IdleFilter /\ IdleDipole /\ IdleNames /\ IdleOmm
        /\ IdleJobs
        /\ IdleFix
SpecScan == InitScanSpec /\ [][NextScan]_vars

\* Calls of scanDihedrals that follow one another on one outdir.
InitRescanSpec ==
    InitRescan /\ IdleQM /\ IdleFilter /\ IdleDipole /\ IdleNames /\ IdleOmm
        /\ IdleJobs
        /\ IdleFix
SpecRescan == InitRescanSpec /\ [][NextRescan]_vars

\* The directories of every two scan jobs of one molecule.
InitJobsSpec ==
    InitJobs /\ IdleQM /\ IdleFilter /\ IdleDipole /\ IdleNames /\ IdleOmm
        /\ IdleScan
        /\ IdleFix
SpecJobs == InitJobsSpec /\ [][NextJobs]_vars

\* fixPhosphateTypes on a P atom with every list of 3 or 4 neighbours.
InitFixSpec ==
    InitFix /\ IdleQM /\ IdleFilter /\ IdleDipole /\ IdleNames /\ IdleOmm
        /\ IdleScan /\ IdleJobs
SpecFix == InitFixSpec /\ [][NextFix]_vars

\* ================================================================ claims
\* ---------------------------------------------------- retrieve (Spec)
\* Name of the directory of frame k as the specification gives it: k
\* zero-padded to 5 digits (k < 10 within the bounds).
PaddedName(k) == <<0, 0, 0, 0, k>>
HoldsDataPkl(files, k) == PaddedName(k) \in DOMAIN files

\* C1: over any sequence of retrieve calls on one job directory that is never
\* cleared, a call starts the computation of frame k only when the directory
\* of k holds no data.pkl; once that data.pkl exists it stays, unchanged, and
\* frame k is not computed again; so no frame's computation completes twice.
C1_ComputedAtMostOnce ==
    [][/\ ncalls' # ncalls =>
            \A k \in Frames :
               /\ k \in attempted' => ~HoldsDataPkl(disk, k)
               /\ k \in computed' => HoldsDataPkl(disk', k)
               /\ HoldsDataPkl(disk, k) =>
                     /\ k \notin attempted'
                     /\ HoldsDataPkl(disk', k)
                     /\ disk'[PaddedName(k)] = disk[PaddedName(k)]
       /\ \A k \in Frames : computeCount'[k] <= 1]_vars

\* C1 witness: a later call found frame 0 stored and frame 1 not, loaded the
\* one and computed the other.
C1_Witness ==
    /\ ncalls >= 2
    /\ outcome = "returned"
    /\ loaded = {0}
    /\ computed = {1}
    /\ \A k \in Frames : computeCount[k] = 1

\* C2: every call that returns gives, for every frame, a record equal to the
\* one the first returning call gave for that frame, whatever the optimize
\* flag, the restrained dihedrals, the ESP points and the coordinates are now.
C2_CacheIdempotent ==
    outcome = "returned" =>
        \A k \in Frames :
            /\ firstReturned[k] # <<>>
            /\ results[k + 1] = firstReturned[k][1].record

\* C2 witness: a call returned, from the cache, a record first returned by an
\* earlier call, while the configuration had changed so that a fresh
\* computation would give another record.
C2_Witness ==
    /\ outcome = "returned"
    /\ backend = "FakeQM"
    /\ \E k \in Frames :
          /\ k \in loaded
          /\ firstReturned[k] # <<>>
          /\ firstReturned[k][1].call < ncalls
          /\ FakeQMRecord(Config, k) # results[k + 1]
          /\ optimize /\ restrained_dihedrals # None /\ version = 1

\* C8 (as claimed): when the computation of one frame fails inside retrieve,
\* the call still returns one record per frame and the record of the failed
\* frame has errored = TRUE.
C8_FailureCaptured ==
    failedFrame # -1 =>
        /\ outcome = "returned"
        /\ Len(results) = numFrames
        /\ results[failedFrame + 1].errored

\* The geometry among the molecule's input frames that c was computed from,
\* and the frame it is.
Origin(c) == c % 100
FrameOf(c) == (Origin(c) - 1) \div 10

\* C10: a call that returns gives numFrames records; element k is the record
\* of frame k: if computed, computed from the coordinates of frame k of the
\* configured molecule; if loaded, the content of data.pkl in the directory
\* named k zero-padded; in both cases a record of frame k.
C10_OneRecordPerFrame ==
    [][(ncalls' # ncalls /\ outcome' = "returned") =>
          /\ Len(results') = numFrames
          /\ \A k \in Frames :
                /\ k \in computed' \/ k \in loaded'
                /\ k \in computed' =>
                      /\ ~HoldsDataPkl(disk, k)
                      /\ Origin(results'[k + 1].coords) = FrameCoords(version, k)
                /\ k \in loaded' =>
                      /\ HoldsDataPkl(disk, k)
                      /\ results'[k + 1] = PickleLoad(disk[PaddedName(k)])
                /\ FrameOf(results'[k + 1].coords) = k]_vars

\* C10 witness: a call returned a mix of loaded and computed frames, the
\* loaded one computed earlier from other coordinates.
C10_Witness ==
    /\ outcome = "returned"
    /\ numFrames = 2
    /\ loaded = {0}
    /\ computed = {1}
    /\ Origin(results[1].coords) # FrameCoords(version, 0)

\* C15 (as claimed): in every CustomEnergyBasedMinimizer.minimize call,
\* those CustomQM.retrieve makes per frame on the minimizer it keeps
\* included, the equality constraints in force are exactly those of the
\* restrained_dihedrals argument of that call, referenced to the input
\* coordinates of that call: none of an earlier call is in force.
C15_ConstraintsOfThisCall ==
    \A i \in 1..Len(minimizeCalls) :
        minimizeCalls[i].constraints =
            IF minimizeCalls[i].restrained_dihedrals # None
            THEN <<minimizeCalls[i].coords>>
            ELSE <<>>

\* C16 (as claimed, for the retrieve of FakeQM, FakeQM2 and CustomQM): the
\* call leaves the molecule the caller configured as it was: coordinates,
\* current frame index and number of frames are the same after as before.
C16_MoleculeUntouched ==
    [][ncalls' # ncalls =>
          /\ version' = version
          /\ numFrames' = numFrames
          /\ mol_frame' = mol_frame]_vars

\* The frames whose directory holds no data.pkl.
Uncached(files) == {k \in Frames : ~HoldsDataPkl(files, k)}
FirstUncached(files) ==
    CHOOSE k \in Uncached(files) : \A l \in Uncached(files) : k <= l

\* C17: a FakeQM or FakeQM2 retrieve given ESP points and a molecule of
\* several frames fails at the first frame that is not cached (or before
\* the loop), having computed no frame and written no data.pkl, so no
\* record with ESP values is returned or stored by it; a retrieve given no
\* ESP points puts no ESP values in any record it computes; so a computed
\* record has ESP values only in a single-frame job given ESP points.
C17_EspOnlySingleFrame ==
    [][(ncalls' # ncalls /\ backend \in {"FakeQM", "FakeQM2"}) =>
          /\ (esp_points # None /\ numFrames > 1 /\ Uncached(disk) # {}) =>
                /\ outcome' = "raised"
                /\ results' = <<>>
                /\ failedFrame' \in {-1, FirstUncached(disk)}
                /\ computed' = {}
                /\ disk' = disk
          /\ \A k \in computed' :
                LET r == PickleLoad(disk'[PaddedName(k)])
                IN  /\ esp_points = None => r.esp_values = None
                    /\ r.esp_values # None =>
                          numFrames = 1 /\ esp_points # None
                    /\ outcome' = "returned" => results'[k + 1] = r]_vars

\* C17 witness: a job of two frames given ESP points, frame 0 cached from a
\* call made without ESP points: the call loaded frame 0 and failed at
\* frame 1, and no stored record has ESP values.
C17_Witness ==
    /\ backend \in {"FakeQM", "FakeQM2"}
    /\ numFrames = 2
    /\ esp_points # None
    /\ outcome = "raised"
    /\ loaded = {0}
    /\ failedFrame = 1
    /\ ~HoldsDataPkl(disk, 1)
    /\ PickleLoad(disk[PaddedName(0)]).esp_values = None

\* The dipole of geometry c.
DipoleAt(c) == <<"dipole", c>>

\* C18 (as claimed, for FakeQM and FakeQM2): with optimize set, a freshly
\* computed record holds minimized coordinates, and its energy, its dipole
\* and its ESP values are those of these minimized coordinates, not of the
\* input frame.
C18_EvaluatedOnMinimized ==
    [][(ncalls' # ncalls /\ optimize /\ backend \in {"FakeQM", "FakeQM2"}) =>
          \A k \in computed' :
              LET r == PickleLoad(disk'[PaddedName(k)])
              IN  /\ r.coords # FrameCoords(version, k)
                  /\ Origin(r.coords) = FrameCoords(version, k)
                  /\ r.energy = Energy(r.coords)
                  /\ r.dipole = DipoleAt(r.coords)
                  /\ esp_points # None =>
                        r.esp_values = EspValues(esp_points, r.coords)
                  /\ esp_points = None => r.esp_values = None]_vars

\* The record in data.pkl of frame k holds coordinates, energy and dipole.
StoredComputed(files, k) ==
    LET r == PickleLoad(files[PaddedName(k)])
    IN  /\ ~r.errored
        /\ Origin(r.coords) = FrameCoords(version, k)
        /\ r.energy = Energy(r.coords)
        /\ r.dipole # None

\* The record in data.pkl of frame k holds the ESP values at points.
StoredEsp(files, k, points) ==
    LET r == PickleLoad(files[PaddedName(k)])
    IN  r.esp_points = points /\ r.esp_values = EspValues(points, r.coords)

\* The record in data.pkl of frame k holds no ESP points and no ESP values.
StoredNoEsp(files, k) ==
    LET r == PickleLoad(files[PaddedName(k)])
    IN  r.esp_points = None /\ r.esp_values = None

\* What one call of retrieve leaves when it was aborted in the computation
\* of a frame: no data.pkl for that frame, one for every frame below.
AbortLeavesPrefix ==
    failedFrame' >= 0 =>
        /\ ~HoldsDataPkl(disk', failedFrame')
        /\ \A j \in 0..(failedFrame' - 1) : HoldsDataPkl(disk', j)

\* A call that follows one aborted at frame k and gets to its loop: the
\* frames below k are loaded, their files stay as they are, no frame below
\* k is computed; if it returns, the records below k are the stored ones
\* and exactly the frames from k on were computed.
ResumesAtFailedFrame ==
    (failedFrame >= 0 /\ (outcome' = "returned" \/ failedFrame' >= 0)) =>
        LET below == 0..(failedFrame - 1) IN
        /\ below \subseteq loaded'
        /\ attempted' \cap below = {}
        /\ \A j \in below : disk'[PaddedName(j)] = disk[PaddedName(j)]
        /\ failedFrame \in attempted'
        /\ outcome' = "returned" =>
              /\ loaded' = below
              /\ computed' = Frames \ below
              /\ \A j \in below :
                    results'[j + 1] = PickleLoad(disk[PaddedName(j)])

\* C27: in FakeQM and CustomQM, the data.pkl a call writes for
\* a frame holds the frame's coordinates, energy, dipole and, when ESP
\* points are set, the ESP values; a call aborted in the computation of
\* frame k leaves no data.pkl for k and one for every frame below; the call
\* after it loads the frames below k unchanged and computes from k on.
C27_PickleAfterAllComputed ==
    [][(ncalls' # ncalls /\ backend \in {"FakeQM", "CustomQM"}) =>
          /\ \A k \in computed' :
                /\ StoredComputed(disk', k)
                /\ esp_points # None => StoredEsp(disk', k, esp_points)
          /\ AbortLeavesPrefix
          /\ ResumesAtFailedFrame]_vars

\* What holds of C27 in both backends: as claimed, except that the ESP
\* values are in the data.pkl FakeQM writes when ESP points are set, while
\* the data.pkl CustomQM writes holds none, set or not.
C27_PickleAfterComputation ==
    [][(ncalls' # ncalls /\ backend \in {"FakeQM", "CustomQM"}) =>
          /\ \A k \in computed' :
                /\ StoredComputed(disk', k)
                /\ (backend = "FakeQM" /\ esp_points # None)
                       => StoredEsp(disk', k, esp_points)
                /\ backend = "CustomQM" => StoredNoEsp(disk', k)
          /\ AbortLeavesPrefix
          /\ ResumesAtFailedFrame]_vars

\* The case of C27_PickleAfterComputation: the first call of a FakeQM job of two frames was aborted in
\* frame 1; the second call loaded frame 0 and computed frame 1, so that
\* it was the first to return a record.
C27_Witness ==
    /\ backend = "FakeQM"
    /\ ncalls = 2
    /\ outcome = "returned"
    /\ loaded = {0}
    /\ computed = {1}
    /\ firstReturned[0][1].call = 2
    /\ results[1] = PickleLoad(disk[PaddedName(0)])

\* --------------------------------------------- filterQMResults (SpecFilter)
Returned == fstatus = "returned"
Batches == 1..Len(all_results)
Positions(b) == 1..Len(all_results[b])

\* The record at position i of input batch b is in output batch b.
Kept(b, i) ==
    \E j \in 1..Len(valid_out[b]) : valid_out[b][j].id = <<b, i>>

\* A warning with the given reason was logged for that record.
Warned(reason, b, i) ==
    \E l \in 1..Len(log) : log[l] = [reason |-> reason, id |-> <<b, i>>]

\* The chiral-center signature of the reference molecule placed at geometry c.
SignatureAt(c) == DetectChiralCenters([mol EXCEPT !.coords = c])

\* The record is neither errored nor, with a reference molecule, of another
\* signature than the reference: it survives the first two steps.
Survivor(b, i) ==
    /\ ~all_results[b][i].errored
    /\ mol.given => SignatureAt(all_results[b][i].coords) = SignatureAt(mol.coords)

\* C3: with or without a reference molecule, no batch returned by
\* filterQMResults contains a record with errored = TRUE.
C3_NoErroredReturned ==
    Returned =>
        \A b \in 1..Len(valid_out) :
            \A j \in 1..Len(valid_out[b]) : ~valid_out[b][j].errored

\* C3 witness: a call with a reference molecule returned a batch from which
\* an errored record is gone and in which another record stayed.
C3_Witness ==
    /\ Returned
    /\ mol.given
    /\ \E b \in Batches :
          /\ \E i \in Positions(b) : all_results[b][i].errored
          /\ Len(valid_out[b]) > 0

\* C4 (as claimed): a survivor of the error and chirality steps is dropped
\* if and only if its energy exceeds the minimum energy of the survivors of
\* its batch by more than 20 kcal/mol; at exactly 20 it is kept.
C4_DroppedIffMoreThan20 ==
    Returned =>
        \A b \in Batches : \A i \in Positions(b) :
            Survivor(b, i) =>
                (~Kept(b, i) <=>
                    \E j \in Positions(b) :
                        /\ Survivor(b, j)
                        /\ all_results[b][i].energy - all_results[b][j].energy > 20)

\* C5: the outlier baseline of a batch is the minimum over the survivors of
\* that batch: a survivor is dropped only if a survivor of the same batch
\* lies at least the threshold below it, never because of an errored or
\* chirality-dropped record or of a record of another batch; and a kept
\* survivor lies at most the threshold above every survivor of its batch.
C5_BaselineOverSurvivors ==
    Returned =>
        \A b \in Batches : \A i \in Positions(b) :
            /\ Kept(b, i) => Survivor(b, i)
            /\ (Survivor(b, i) /\ ~Kept(b, i)) =>
                  \E j \in Positions(b) :
                      /\ Survivor(b, j)
                      /\ all_results[b][i].energy - all_results[b][j].energy
                            >= EnergyThreshold
            /\ Kept(b, i) =>
                  \A j \in Positions(b) :
                      Survivor(b, j) =>
                          all_results[b][i].energy - all_results[b][j].energy
                             <= EnergyThreshold

\* C5 witness: a kept record lies more than the threshold above an errored
\* record of its batch and above a survivor of another batch.
C5_Witness ==
    /\ Returned
    /\ Len(all_results) = 2
    /\ \E b \in Batches : \E i, j \in Positions(b) :
          /\ all_results[b][j].errored
          /\ Kept(b, i)
          /\ all_results[b][i].energy - all_results[b][j].energy > EnergyThreshold
          /\ \E k \in Positions(3 - b) :
                /\ Kept(3 - b, k)
                /\ all_results[b][i].energy - all_results[3 - b][k].energy
                      > EnergyThreshold

\* C6: filterQMResults returns one batch per input batch, in the same order,
\* and each output batch is a subsequence of its input batch: every output
\* record is the input record of the same batch at a position, and the
\* positions increase strictly along the output batch.
C6_SubsequencePerBatch ==
    Returned =>
        /\ Len(valid_out) = Len(all_results)
        /\ \A b \in Batches : \A j \in 1..Len(valid_out[b]) :
              LET id == valid_out[b][j].id
              IN  /\ id[1] = b
                  /\ id[2] \in Positions(b)
                  /\ all_results[b][id[2]] = valid_out[b][j]
                  /\ \A j2 \in 1..Len(valid_out[b]) :
                        j < j2 => id[2] < valid_out[b][j2].id[2]

\* C6 witness: the first and the third record of a batch of three were
\* returned, the second was not.
C6_Witness ==
    /\ Returned
    /\ \E b \in Batches :
          /\ Len(all_results[b]) = 3
          /\ Len(valid_out[b]) = 2
          /\ Kept(b, 1) /\ ~Kept(b, 2) /\ Kept(b, 3)

\* C7: with a reference molecule, a non-errored record is dropped by the
\* chirality step if and only if the signature at its coordinates differs
\* from the signature of the reference as it was given; when that signature
\* is empty no record is dropped by the chirality step.
C7_ChiralityDrop ==
    (Returned /\ mol.given) =>
        /\ \A b \in Batches : \A i \in Positions(b) :
              /\ all_results[b][i].errored => ~Warned("chiral", b, i)
              /\ ~all_results[b][i].errored =>
                    (Warned("chiral", b, i) <=>
                        SignatureAt(all_results[b][i].coords) # SignatureAt(mol.coords))
              /\ Warned("chiral", b, i) => ~Kept(b, i)
        /\ SignatureAt(mol.coords) = <<>> =>
              \A l \in 1..Len(log) : log[l].reason # "chiral"

\* C7 witness: with a reference of handedness S, a record of handedness R
\* was dropped by the chirality step and one of handedness S was kept.
C7_Witness ==
    /\ Returned
    /\ mol.given
    /\ SignatureAt(mol.coords) = << <<0, "S">> >>
    /\ \E b \in Batches : \E i, j \in Positions(b) :
          /\ Warned("chiral", b, i)
          /\ SignatureAt(all_results[b][i].coords) = << <<0, "R">> >>
          /\ Kept(b, j)

\* C9: for a call that returns, every removed record has exactly one
\* warning, kept records have none, and the number of warnings is the number
\* of input records minus the number of output records.
C9_OneWarningPerRemoved ==
    Returned =>
        /\ Len(log) = TotalLen(all_results, 1) - TotalLen(valid_out, 1)
        /\ \A b \in Batches : \A i \in Positions(b) :
              Cardinality({l \in 1..Len(log) : log[l].id = <<b, i>>})
                 = IF Kept(b, i) THEN 0 ELSE 1

\* C9 witness: a call removed one record at the chirality step and one at
\* the energy step.
C9_Witness ==
    /\ Returned
    /\ Len(log) = 2
    /\ \E l \in 1..Len(log) : log[l].reason = "energy"
    /\ \E l \in 1..Len(log) : log[l].reason = "chiral"

\* What filterQMResults returns for batch b given alone.
Alone(b) == FilterQMResults(<<all_results[b]>>, mol)

\* C22: a call raises only for a reference molecule that has not exactly
\* one frame; a call that returns gives one batch per batch given, a batch
\* of which every record is errored or chirality-inverted comes out empty
\* at its position with no high-energy warning, and every batch comes out as
\* it does from a call with that batch alone.
C22_EmptyBatchKeepsItsPlace ==
    /\ fstatus = "raised" => (mol.given /\ DetectRaises(mol))
    /\ Returned =>
          /\ Len(valid_out) = Len(all_results)
          /\ \A b \in Batches :
                /\ (\A i \in Positions(b) : ~Survivor(b, i)) =>
                      /\ valid_out[b] = <<>>
                      /\ \A i \in Positions(b) : ~Warned("energy", b, i)
                /\ valid_out[b] = Alone(b).out[1]

\* C22 witness: a call with a reference molecule returned; the first batch
\* held an errored and a chirality-inverted record and came out empty, the
\* second came out with its record.
C22_Witness ==
    /\ Returned
    /\ mol.given
    /\ Len(all_results) = 2
    /\ \E i, j \in Positions(1) :
          /\ all_results[1][i].errored
          /\ Warned("chiral", 1, j)
    /\ valid_out[1] = <<>>
    /\ Len(valid_out[2]) = 1

\* The survivors of batch b that no survivor of the batch lies below.
LowestSurvivors(b) ==
    {i \in Positions(b) :
        /\ Survivor(b, i)
        /\ \A j \in Positions(b) :
              Survivor(b, j) => all_results[b][i].energy <= all_results[b][j].energy}

\* C28: every survivor of lowest energy of its batch is returned, so a
\* batch with a survivor does not come out empty; and a second call on what
\* was returned, with the same reference molecule or none, returns it
\* unchanged, without raising and without a warning.
C28_FilterIdempotent ==
    Returned =>
        /\ \A b \in Batches :
              /\ \A i \in LowestSurvivors(b) : Kept(b, i)
              /\ (\E i \in Positions(b) : Survivor(b, i)) => valid_out[b] # <<>>
        /\ refiltered # None =>
              /\ ~refiltered[1].raised
              /\ refiltered[1].out = valid_out
              /\ refiltered[1].log = <<>>

\* C28 witness: of a batch of three, one record went at the chirality step
\* and one at the energy step; the second call, with the reference
\* molecule, returned the one record left.
C28_Witness ==
    /\ Returned
    /\ refiltered # None
    /\ refiltered[1].given
    /\ \E b \in Batches :
          /\ Len(all_results[b]) = 3
          /\ \E i, j \in Positions(b) : Warned("chiral", b, i) /\ Warned("energy", b, j)
          /\ Len(valid_out[b]) = 1
          /\ refiltered[1].out[b] = valid_out[b]

\* ------------------------------------------------- getDipole (SpecDipole)
\* C19: getDipole on a molecule whose masses sum to zero returns a vector of
\* four zeros and logs one warning; it does not raise and does not evaluate
\* the centre of mass, so nothing is divided by the zero mass.
C19_ZeroMassDipole ==
    (dipole_status # "idle" /\ Sum(dipole_mol.masses) = 0) =>
        /\ dipole_status = "returned"
        /\ dipole_out = <<[xyz |-> <<0, 0, 0>>, norm_sq |-> 0, denom |-> 1]>>
        /\ Len(dipole_log) = 1
        /\ com_calls = 0

\* C19 witness: getDipole was called on a molecule of two charged atoms at
\* different places, both of mass zero.
C19_Witness ==
    /\ dipole_status = "returned"
    /\ Len(dipole_mol.masses) = 2
    /\ Sum(dipole_mol.masses) = 0
    /\ dipole_mol.charge = <<1, -1>>
    /\ dipole_mol.coords[1] # dipole_mol.coords[2]

\* --------------------------------------- makeAtomNamesUnique (SpecNames)
\* C20: for every list of atom names makeAtomNamesUnique comes to its
\* return; the molecule returned has as many names as the one given, no two
\* of them equal, and the molecule given still has the names it had.
C20_NamesMadeUnique ==
    names_status # "idle" =>
        /\ names_status = "returned"
        /\ new_names # None
        /\ Len(new_names[1]) = Len(given_names)
        /\ \A i, j \in DOMAIN new_names[1] :
              i # j => new_names[1][i] # new_names[1][j]
        /\ mol_names = given_names

\* C20 witness: two atoms given one name and a third whose name is that
\* name with the first suffix tried, so that the second atom was renamed
\* with the next one.
C20_Witness ==
    /\ names_status = "returned"
    /\ given_names = <<<<"A">>, <<"A">>, <<"A", "0">>>>
    /\ new_names = <<(<<<<"A">>, <<"A", "1">>, <<"A", "0">>>>)>>
    /\ renamed = <<2>>

\* The names in use when the t-th renaming is made: an atom renamed before
\* has its new name, every other atom the name it was given.
NamesInUse(t) ==
    [k \in DOMAIN given_names |->
        IF \E u \in 1..(t - 1) : renamed[u] = k
        THEN new_names[1][k] ELSE given_names[k]]

\* C21: an atom whose name no other atom was given keeps it, and so does
\* the first atom of those given one name; no atom is renamed twice; an
\* atom renamed gets the name it was given without its trailing digits,
\* followed by the smallest integer, from the value of those digits on (0
\* without digits), that makes a name no atom has when it is renamed; and
\* a second call, on the molecule returned, returns the same names.
C21_UniqueNamesPreserved ==
    names_status = "returned" =>
        LET new == new_names[1] IN
        /\ \A i \in DOMAIN given_names :
              (\A k \in DOMAIN given_names : k < i => given_names[k] # given_names[i])
                  => /\ new[i] = given_names[i]
                     /\ \A t \in DOMAIN renamed : renamed[t] # i
        /\ \A t, u \in DOMAIN renamed : t # u => renamed[t] # renamed[u]
        /\ \A i \in DOMAIN given_names :
              (\A t \in DOMAIN renamed : renamed[t] # i) => new[i] = given_names[i]
        /\ \A t \in DOMAIN renamed :
              LET j == renamed[t]
                  parts == SplitName(given_names[j])
                  old == ParseInt(parts.sufix)
                  inuse == NamesInUse(t)
              IN  \E n \in old..(old + Len(given_names)) :
                    /\ new[j] = parts.prefix \o Str(n)
                    /\ \A k \in DOMAIN inuse : inuse[k] # new[j]
                    /\ \A m \in old..(n - 1) :
                          \E k \in DOMAIN inuse : inuse[k] = parts.prefix \o Str(m)
        /\ twice_names # None => twice_names[1] = new

\* C21 witness: two atoms given the name A0 and a third given A1: the
\* second was renamed A2, the first integer from 0 on that was free, the
\* other two kept their names, and the second call returned the same names.
C21_Witness ==
    /\ names_status = "returned"
    /\ given_names = <<<<"A", "0">>, <<"A", "0">>, <<"A", "1">>>>
    /\ new_names = <<(<<<<"A", "0">>, <<"A", "2">>, <<"A", "1">>>>)>>
    /\ renamed = <<2>>
    /\ twice_names = new_names

\* --------------------------------------------- OMMMinimizer (SpecOmm)
\* C14: after any sequence of minimize calls that all returned, restrained
\* or not, the system holds exactly the forces it was created with; and
\* while each of these calls ran, the forces in the system were those plus
\* the one restraint of that call, none of an earlier call.
C14_RestraintRemoved ==
    (\A i \in DOMAIN omm_calls : ~omm_calls[i].raised) =>
        /\ Len(system) = 2
        /\ \A i \in DOMAIN system : system[i].kind # "PeriodicTorsionForce"
        /\ \A i \in DOMAIN omm_calls :
              LET call == omm_calls[i]
              IN  IF call.restrained_dihedrals = None
                  THEN call.in_force = system
                  ELSE /\ Len(call.in_force) = Len(system) + 1
                       /\ SubSeq(call.in_force, 1, Len(system)) = system
                       /\ LET f == call.in_force[Len(system) + 1]
                          IN  /\ f.kind = "PeriodicTorsionForce"
                              /\ Len(f.torsions) = Len(call.restrained_dihedrals)
                              /\ \A t \in DOMAIN f.torsions :
                                    /\ f.torsions[t].phase = call.coords
                                    /\ f.torsions[t].atoms =
                                          call.restrained_dihedrals[t]

\* C14 witness: two restrained calls on different geometries, both
\* returned, the second one without reaching the tolerance.
C14_Witness ==
    /\ Len(omm_calls) = 2
    /\ omm_warnings = 1
    /\ omm_attempts = 50
    /\ omm_status = "returned"
    /\ \A i \in DOMAIN omm_calls : ~omm_calls[i].raised
    /\ omm_calls[1].restrained_dihedrals = <<TheDihedral>>
    /\ omm_calls[2].restrained_dihedrals # None
    /\ omm_calls[1].coords # omm_calls[2].coords

\* The maximum forces of all optimizer runs of the last minimize call.
RunForces ==
    UNION {{omm_trace[i].runs[r] : r \in DOMAIN omm_trace[i].runs} :
              i \in DOMAIN omm_trace}

\* C25: a minimize call raises only where a call it makes raises, never
\* for want of convergence; one that returns has made at most 50 attempts,
\* every attempt after the first starts at the best point found before it,
\* the last attempt is the first whose maximum force is at most the
\* tolerance (or the 50th), the point returned is that of the run of
\* smallest maximum force, and a warning is logged exactly if that force
\* is above the tolerance.
C25_RetriesFromBestPoint ==
    /\ omm_status = "raised" => omm_trace = <<>>
    /\ omm_status = "returned" =>
          /\ omm_attempts = Len(omm_trace)
          /\ omm_attempts \in 1..MaxAttempts
          /\ omm_trace[1].start = InputPoint
          /\ \A i \in 2..omm_attempts :
                omm_trace[i].start = omm_trace[i - 1].best.point
          /\ \A i \in 1..(omm_attempts - 1) :
                omm_trace[i].max_force > ForceTolerance
          /\ omm_attempts < MaxAttempts =>
                omm_trace[omm_attempts].max_force <= ForceTolerance
          /\ minimized_coords[1].max_force \in RunForces
          /\ \A f \in RunForces : minimized_coords[1].max_force <= f
          /\ omm_trace[minimized_coords[1].attempt]
                 .runs[minimized_coords[1].run] = minimized_coords[1].max_force
          /\ omm_warnings = 1 <=> minimized_coords[1].max_force > ForceTolerance
          /\ omm_warnings \in {0, 1}

\* The parts of C25 that do not depend on where an attempt starts.
RetriesBestKept ==
    /\ omm_status = "raised" => omm_trace = <<>>
    /\ omm_status = "returned" =>
          /\ omm_attempts = Len(omm_trace)
          /\ omm_attempts \in 1..MaxAttempts
          /\ \A i \in 1..(omm_attempts - 1) :
                omm_trace[i].max_force > ForceTolerance
          /\ omm_attempts < MaxAttempts =>
                omm_trace[omm_attempts].max_force <= ForceTolerance
          /\ minimized_coords[1].max_force \in RunForces
          /\ \A f \in RunForces : minimized_coords[1].max_force <= f
          /\ omm_trace[minimized_coords[1].attempt]
                 .runs[minimized_coords[1].run] = minimized_coords[1].max_force
          /\ omm_warnings = 1 <=> minimized_coords[1].max_force > ForceTolerance
          /\ omm_warnings \in {0, 1}

\* ---------------------------------------------- scanDihedrals (SpecScan)
\* The rotamer molecule of a dihedral as the specification gives it: 36
\* frames, frame k at -180 + 10k degrees, relaxed by MM in an "mm" scan.
ExpectedMolecule(dihedral) ==
    [k \in 1..36 |->
        [dihedral |-> dihedral, angle |-> -180 + 10 * (k - 1),
         minimized |-> (scan_type = "mm")]]

\* What ref has to hold for the dihedral at position i.
ExpectedConfig(i) ==
    [molecule |-> ExpectedMolecule(scan_dihedrals[i]),
     esp_points |-> None,
     optimize |-> (scan_type = "qm"),
     restrained_dihedrals |-> <<scan_dihedrals[i]>>,
     directory |-> ScanDirectory(OutDir, scan_type, scan_names,
                                 scan_dihedrals[i], ref)]

\* C11: at every setup, submit and retrieve call scanDihedrals makes for
\* the dihedral at position i, ref holds the rotamer molecule and the
\* directory of that dihedral, esp_points = None, restrained_dihedrals =
\* [that dihedral] and optimize = (scan_type == "qm"); and batch i of the
\* result was retrieved under exactly this configuration.
C11_ConfiguredPerDihedral ==
    /\ \A e \in DOMAIN calls :
          calls[e].op \in {"setup", "submit", "retrieve"} =>
              calls[e].config = ExpectedConfig(calls[e].index)
    /\ scan_status = "returned" =>
          /\ Len(scan_results[1]) = Len(scan_dihedrals)
          /\ \A i \in DOMAIN scan_dihedrals :
                \A k \in DOMAIN scan_results[1][i] :
                    LET record == scan_results[1][i][k]
                        config == ExpectedConfig(i)
                    IN  /\ record.input = config.molecule[k]
                        /\ record.optimize = config.optimize
                        /\ record.restrained_dihedrals =
                              config.restrained_dihedrals
                        /\ record.esp_points = None
                        /\ record.directory = config.directory

\* C11 witness: a scan of two different dihedrals returned; ref ends with
\* the configuration of the second.
C11_Witness ==
    /\ scan_status = "returned"
    /\ Len(scan_dihedrals) = 2
    /\ scan_dihedrals[1] # scan_dihedrals[2]
    /\ scan_type = "qm"
    /\ Len(calls) = 8
    /\ calls[5].op = "setup" /\ calls[5].index = 1
    /\ calls[6].op = "retrieve" /\ calls[6].index = 1
    /\ ref.restrained_dihedrals = <<scan_dihedrals[2]>>

\* C12: for every dihedral scanDihedrals generates a molecule of exactly
\* 36 frames, frame k (k = 0..35) with the dihedral at -180 + 10k degrees:
\* the first at -180, each above the one before, none at +180.
C12_RotamerAngles ==
    scan_status # "idle" =>
        /\ Len(rotamers) = Len(scan_dihedrals)
        /\ \A i \in DOMAIN rotamers :
              /\ Len(rotamers[i]) = 36
              /\ rotamers[i][1].angle = -180
              /\ \A k \in 1..36 :
                    /\ rotamers[i][k].dihedral = scan_dihedrals[i]
                    /\ rotamers[i][k].angle = -180 + 10 * (k - 1)
                    /\ rotamers[i][k].angle # 180
                    /\ k > 1 => rotamers[i][k].angle > rotamers[i][k - 1].angle

\* C12 witness: rotamers were generated for two dihedrals, the last frame
\* of each at 170 degrees.
C12_Witness ==
    /\ scan_status = "returned"
    /\ Len(rotamers) = 2
    /\ rotamers[1][36].angle = 170
    /\ rotamers[2][36].angle = 170

\* The calls a scan that runs to its end makes, by position in the order
\* the specification gives: with scan_type "mm" one minimize per frame,
\* dihedral by dihedral; then setup and submit per dihedral; then setup and
\* retrieve per dihedral.
NumMinimize == IF scan_type = "mm" THEN 36 * Len(scan_dihedrals) ELSE 0
NumExpected == NumMinimize + 4 * Len(scan_dihedrals)
ExpectedCall(e) ==
    IF e <= NumMinimize
    THEN [op |-> "minimize", index |-> ((e - 1) \div 36) + 1,
          frame |-> (e - 1) % 36]
    ELSE IF e <= NumMinimize + 2 * Len(scan_dihedrals)
    THEN [op |-> IF (e - NumMinimize) % 2 = 1 THEN "setup" ELSE "submit",
          index |-> ((e - NumMinimize - 1) \div 2) + 1, frame |-> -1]
    ELSE LET f == e - NumMinimize - 2 * Len(scan_dihedrals)
         IN  [op |-> IF f % 2 = 1 THEN "setup" ELSE "retrieve",
              index |-> ((f - 1) \div 2) + 1, frame |-> -1]

\* C24: the rotamers of every dihedral are generated before anything is
\* called; the calls scanDihedrals makes are, in this order: if and only
\* if scan_type is "mm", one minimize for each of the 36 frames of each
\* dihedral, with restrained_dihedrals = [that dihedral]; setup then submit
\* for each dihedral in the order given; setup then retrieve for each
\* dihedral in the order given.  A scan that returns has made all of them;
\* one that raises has made them up to the call that raised.
C24_OrderedPhases ==
    scan_status # "idle" =>
        /\ rotamers = [i \in DOMAIN scan_dihedrals |->
                          [k \in 1..36 |->
                              [dihedral |-> scan_dihedrals[i],
                               angle |-> -180 + 10 * (k - 1),
                               minimized |-> FALSE]]]
        /\ Len(calls) <= NumExpected
        /\ \A e \in DOMAIN calls :
              /\ calls[e].op = ExpectedCall(e).op
              /\ calls[e].index = ExpectedCall(e).index
              /\ calls[e].frame = ExpectedCall(e).frame
              /\ calls[e].op = "minimize" =>
                    calls[e].config.restrained_dihedrals
                       = <<scan_dihedrals[calls[e].index]>>
        /\ scan_status = "returned" => Len(calls) = NumExpected
        /\ scan_status = "raised" =>
              \/ calls = <<>>
              \/ calls[Len(calls)].op = "retrieve"

\* C24 witness: an "mm" scan of two dihedrals returned after 72 minimize
\* calls, two setup and submit pairs and two setup and retrieve pairs.
C24_Witness ==
    /\ scan_status = "returned"
    /\ scan_type = "mm"
    /\ Len(scan_dihedrals) = 2
    /\ Len(calls) = 80
    /\ calls[36].op = "minimize" /\ calls[36].index = 1 /\ calls[36].frame = 35
    /\ calls[72].op = "minimize" /\ calls[72].index = 2
    /\ calls[73].op = "setup" /\ calls[74].op = "submit"
    /\ calls[76].op = "submit" /\ calls[76].index = 2
    /\ calls[77].op = "setup" /\ calls[78].op = "retrieve"
    /\ calls[80].op = "retrieve" /\ calls[80].index = 2

\* ------------------------------------ scans on one outdir (SpecRescan)
\* C23: every record of every batch a scan returns holds what is computed
\* under the configuration of that scan for its dihedral and frame: the
\* rotamer coordinates of the frame (MM-minimized in an "mm" scan, as
\* generated otherwise), optimize = (scan_type == "qm") and
\* restrained_dihedrals = [the dihedral]; so no two records of a batch were
\* computed under different optimize flags, restraints or kinds of input
\* coordinates.
C23_BatchOfOneConfiguration ==
    scan_status = "returned" =>
        \A i \in DOMAIN scan_dihedrals :
            /\ \A k \in DOMAIN scan_results[1][i] :
                  LET config == ExpectedConfig(i)
                  IN  scan_results[1][i][k].computed =
                         [input |-> config.molecule[k],
                          optimize |-> config.optimize,
                          restrained_dihedrals |-> config.restrained_dihedrals]
            /\ \A k, l \in DOMAIN scan_results[1][i] :
                  LET a == scan_results[1][i][k].computed
                      b == scan_results[1][i][l].computed
                  IN  /\ a.optimize = b.optimize
                      /\ a.restrained_dihedrals = b.restrained_dihedrals
                      /\ a.input.minimized = b.input.minimized

\* What of C23 fails: a batch was returned in which one record was computed
\* on MM-minimized coordinates and another on the rotamer as generated.
MixedBatch ==
    /\ scan_status = "returned"
    /\ \E i \in DOMAIN scan_dihedrals :
          \E k, l \in DOMAIN scan_results[1][i] :
              /\ scan_results[1][i][k].computed.input.minimized
              /\ ~scan_results[1][i][l].computed.input.minimized

\* ------------------------------------------ fixPhosphateTypes (SpecFix)
\* Bonded atoms, terminal oxygens and the P--O bond in the molecule given.
Atoms == DOMAIN fix_given.element
Bonded(a) ==
    {b \in Atoms : \E i \in DOMAIN fix_given.bonds :
        fix_given.bonds[i] = <<a, b>> \/ fix_given.bonds[i] = <<b, a>>}
Phosphates ==
    {p \in Atoms : fix_given.element[p] = "P" /\ Cardinality(Bonded(p)) = 4}
Oxygens(p) == {o \in Bonded(p) : fix_given.element[o] = "O"}
Terminal(o) == Cardinality(Bonded(o)) = 1
BondOf(a, b) ==
    CHOOSE i \in DOMAIN fix_given.bonds :
        fix_given.bonds[i] = <<a, b>> \/ fix_given.bonds[i] = <<b, a>>

\* C26: fixPhosphateTypes raises only if an oxygen bonded to a P atom with
\* 4 neighbours is bonded to more than one further atom.  In the molecule
\* it returns, for every P atom with exactly 4 neighbours: at most one of
\* its P--O bonds has type 2; if it has a terminal oxygen exactly one has,
\* the bond to a terminal oxygen whose charge no terminal oxygen of that P
\* exceeds, and that oxygen has type O.2; every other oxygen of that P has
\* type O.3 and its bond type 1.  All other atom types and bond types,
\* elements, charges and bonds are those given, and the molecule given is
\* as it was.
C26_OneDoubleBondPerPhosphate ==
    /\ fix_mol = fix_given
    /\ fix_status = "raised" =>
          \E p \in Phosphates : \E o \in Oxygens(p) : Cardinality(Bonded(o)) > 2
    /\ fix_status = "returned" =>
          LET new == fix_out[1]
              Double(p) == {o \in Oxygens(p) : new.bondtype[BondOf(p, o)] = "2"}
          IN  /\ new.element = fix_given.element
              /\ new.charge = fix_given.charge
              /\ new.bonds = fix_given.bonds
              /\ \A p \in Phosphates :
                    /\ Cardinality(Double(p)) <= 1
                    /\ (\E o \in Oxygens(p) : Terminal(o)) =>
                          \E o \in Oxygens(p) :
                              /\ Double(p) = {o}
                              /\ Terminal(o)
                              /\ new.atomtype[o] = "O.2"
                              /\ \A t \in Oxygens(p) :
                                    Terminal(t) =>
                                        fix_given.charge[t] <= fix_given.charge[o]
                    /\ \A o \in Oxygens(p) \ Double(p) :
                          /\ new.atomtype[o] = "O.3"
                          /\ new.bondtype[BondOf(p, o)] = "1"
              /\ \A a \in Atoms :
                    (\A p \in Phosphates : a \notin Oxygens(p)) =>
                        new.atomtype[a] = fix_given.atomtype[a]
              /\ \A i \in DOMAIN fix_given.bonds :
                    (\A p \in Phosphates : \A o \in Oxygens(p) : BondOf(p, o) # i) =>
                        new.bondtype[i] = fix_given.bondtype[i]

\* C26 witness: a P atom with a terminal oxygen of charge -1 given as O.2
\* with a double bond, a terminal oxygen of charge 0 given as O.co2, an
\* oxygen bonded to a further P by a bond of type 2, and a carbon: the
\* double bond went to the oxygen of charge 0, the first became O.3 with a
\* single bond, and the bond to the further P kept its type.
C26_Witness ==
    /\ fix_status = "returned"
    /\ fix_given.element = <<"P", "O", "O", "O", "C", "P">>
    /\ fix_given.charge = <<0, -1, 0, -1, 0, 0>>
    /\ fix_given.atomtype = <<"P.3", "O.2", "O.co2", "O.2", "C.3", "P.3">>
    /\ fix_given.bondtype = <<"2", "ar", "2", "2", "2">>
    /\ fix_out[1].atomtype = <<"P.3", "O.3", "O.2", "O.3", "C.3", "P.3">>
    /\ fix_out[1].bondtype = <<"1", "2", "1", "2", "2">>

\* ----------------------------------------- job directories (SpecJobs)
\* C13 (as claimed): two scan jobs under one outdir that differ in
\* scan_type, in the scanned dihedral or in theory, basis or solvent of the
\* backend are given different directories.
C13_DirectoriesPartition ==
    dir_a # None =>
        ((\/ job_a.scan_type # job_b.scan_type
          \/ job_a.dihedral # job_b.dihedral
          \/ job_a.method # job_b.method)
            => dir_a # dir_b)

\* The names of the four atoms of the dihedral of a job.
AtomNamesOf(job) == [i \in 1..4 |-> job_names[job.dihedral[i] + 1]]

\* C13 (amended): two scan jobs under one outdir are given different
\* directories exactly when they differ in the scan kind (scan_type "qm"
\* or any other value), in the names of the four atoms of the scanned
\* dihedral, or in theory, basis or solvent; jobs that differ only in
\* scan_type "mm" and "None", or in dihedrals whose atoms have the same
\* names, share one directory.
C13_PartitionByKindNamesMethod ==
    dir_a # None =>
        (dir_a # dir_b <=>
            \/ (job_a.scan_type = "qm") # (job_b.scan_type = "qm")
            \/ AtomNamesOf(job_a) # AtomNamesOf(job_b)
            \/ job_a.method # job_b.method)

\* C13 witness: two jobs of a molecule with different atom names that
\* differ in the dihedral only, and have different directories.
C13_Witness ==
    /\ dir_a # None
    /\ job_names = UniqueNames
    /\ job_a.dihedral # job_b.dihedral
    /\ job_a.scan_type = job_b.scan_type
    /\ job_a.method = job_b.method
    /\ dir_a # dir_b

====
